---- MODULE Spec2Model ----
(***************************************************************************)
(* Session-event record/replay subsystem of SafeWalk-SF (SafeSF client):   *)
(* prompt hashing, the localStorage cache store, the event recorder, the   *)
(* event player, the zustand agent store and the WebSocket live handler.   *)
(***************************************************************************)
EXTENDS Integers, Sequences, FiniteSets, TLC

VARIABLES
    now,            \* value returned by Date.now()
    localStorage,   \* window.localStorage: key -> stored text
    recorderRef,    \* recorderRef.current (a CacheRecorder or Null)
    got,            \* the getCache call that produced the current state, if one
                    \* did: its prompt and its return value
    op,             \* name of the operation that produced the current state
    created,        \* number of createRecorder calls so far
    firstCache,     \* SessionCache returned by the first finalizeRecording call
                    \* on the current recorder (Null before it)
    recorded,       \* the (type, data, time) of the recordEvent calls made on the
                    \* current recorder before it was finalized
    store,          \* useAgentStore state
    replays,        \* the replayCache calls made so far, each with its position
    isReplaying,    \* the hook's isReplaying state
    cacheEnabled,   \* isCacheEnabled(): NEXT_PUBLIC_CACHE_ENABLED === 'true'
    isConnected,    \* the socket is open (ws.readyState === OPEN, isConnected)
    sent,           \* the queries sent over the socket, in order
    inbox,          \* messages of the backend in flight to ws.onmessage
    started,        \* number of startSession calls so far
    lastQuery,      \* the query of the last startSession call
    owner,          \* the startSession call (by number) that created the
                    \* recorder recorderRef refers to; 0 when there is none
    liveStore,      \* the store as the live handler left it when it last
                    \* finalized a recorder (Null before)
    liveEvents,     \* the events of the recording finalized then
    call,           \* the last call of a cache-store operation made directly:
                    \* its name, the storage fault it met, localStorage before
                    \* it, its return value, whether an exception left it
    heap,           \* the event arrays that more than one object refers to:
                    \* address -> array contents
    arrived,        \* the taxonomy messages ws.onmessage has delivered while
                    \* the current recorder was attached, in arrival order
    tabs,           \* the browsing contexts of the origin that share
                    \* localStorage: for each, where its saveCache call is
                    \* (pc), the recording it saves, the index it has read
    overlapped      \* two contexts have been inside saveCache at once

recVars == <<recorderRef, got, created, firstCache, recorded>>

appVars == <<store, replays, isReplaying>>

sessVars == <<cacheEnabled, isConnected, sent, inbox, started, lastQuery, owner,
              liveStore, liveEvents>>

auxVars == <<call, heap, arrived, tabs, overlapped>>

vars == <<now, localStorage, recorderRef, got, op, created, firstCache, recorded,
          store, replays, isReplaying,
          cacheEnabled, isConnected, sent, inbox, started, lastQuery, owner,
          liveStore, liveEvents, call, heap, arrived, tabs, overlapped>>

----------------------------------------------------------------------------
(* Bounds of the model *)

MaxTime == 2
MaxEvents == 2
MaxRecorders == 1
MaxSessions == 3
MaxScript == 3

----------------------------------------------------------------------------
(* Values *)

Null == [null |-> TRUE]

IsNull(x) == x = Null

\* Prompts are strings, modelled as sequences of UTF-16 code units:
\* 32 = " ", 65 = "A", 97 = "a", 98 = "b":  "a", "A " and "b".
Prompts == { <<97>>, <<65, 32>>, <<98>> }

\* prompts for which a recorder is created: "A " and "b"
RecPrompts == { <<65, 32>>, <<98>> }

CacheEventTypes ==
    { "session_started", "agent_spawned", "tool_called", "tool_result",
      "data_received", "agent_complete", "session_complete", "session_error",
      "final_result" }

\* (type, data) pairs handed to recordEvent when the recorder is driven directly
RecInputs ==
    { [type |-> "session_started", data |-> [request_id |-> "r1"]],
      [type |-> "session_complete", data |-> [duration_ms |-> 7]] }

----------------------------------------------------------------------------
(* String helpers used by hashPrompt / getCache / createRecorder *)

WhiteSpace == {9, 10, 11, 12, 13, 32}

ToLowerCase(s) ==
    [i \in DOMAIN s |-> IF s[i] >= 65 /\ s[i] <= 90 THEN s[i] + 32 ELSE s[i]]

RECURSIVE TrimStart(_)
TrimStart(s) ==
    IF s # <<>> /\ Head(s) \in WhiteSpace THEN TrimStart(Tail(s)) ELSE s

RECURSIVE TrimEnd(_)
TrimEnd(s) ==
    IF s # <<>> /\ s[Len(s)] \in WhiteSpace
    THEN TrimEnd(SubSeq(s, 1, Len(s) - 1))
    ELSE s

Trim(s) == TrimEnd(TrimStart(s))

\* prompt.toLowerCase().trim()
Normalize(prompt) == Trim(ToLowerCase(prompt))

\* one round of the loop body of hashPrompt on a 32-bit signed hash:
\* hash = ((hash << 5) - hash) + char; hash = hash & hash  (ToInt32).
\* Computed on 16-bit halves so that the 32-bit wrap-around is kept.
HashStep(hash, char) ==
    LET lo  == hash % 65536
        hi  == (hash \div 65536) % 65536
        lo2 == lo * 31 + char
        hi2 == (hi * 31 + (lo2 \div 65536)) % 65536
        lo3 == lo2 % 65536
    IN  IF hi2 >= 32768 THEN (hi2 - 65536) * 65536 + lo3 ELSE hi2 * 65536 + lo3

RECURSIVE HashLoop(_, _)
HashLoop(hash, s) ==
    IF s = <<>> THEN hash ELSE HashLoop(HashStep(hash, Head(s)), Tail(s))

\* Number.prototype.toString(36) of a non-negative integer, as base-36 digits
RECURSIVE ToString36(_)
ToString36(n) ==
    IF n < 36 THEN <<n>> ELSE Append(ToString36(n \div 36), n % 36)

hashPrompt(prompt) ==
    LET hash == HashLoop(0, prompt)
    IN  IF hash = -2147483647 - 1
        THEN <<35, 18, 20, 0, 35, 20>>      \* Math.abs(-2^31) = 2^31 = "zik0zk"
        ELSE ToString36(IF hash < 0 THEN -hash ELSE hash)

----------------------------------------------------------------------------
(* Cache store: storage.ts.  The module runs in the browser ('use client'), *)
(* so the `typeof window === 'undefined'` early returns are not taken.      *)

CACHE_PREFIX == "safesf_cache_"

CACHE_INDEX_KEY == "safesf_cache_index"

\* CACHE_PREFIX + hash
CacheKey(hash) == <<CACHE_PREFIX>> \o hash

IndexKey == <<CACHE_INDEX_KEY>>

getItem(ls, key) == IF key \in DOMAIN ls THEN ls[key] ELSE Null

setItem(ls, key, text) ==
    [k \in DOMAIN ls \cup {key} |-> IF k = key THEN text ELSE ls[k]]

removeItem(ls, key) == [k \in DOMAIN ls \ {key} |-> ls[k]]

\* JSON text of one CacheEvent: its fields in order
StringifyEvent(e) == <<e.type, e.data, e.timestamp, e.delay>>

ParseEvent(t) ==
    [type |-> t[1], data |-> t[2], timestamp |-> t[3], delay |-> t[4]]

\* JSON.stringify(cache) for a SessionCache
StringifyCache(cache) ==
    [json        |-> "object",
     promptHash  |-> cache.promptHash,
     prompt      |-> cache.prompt,
     events      |-> [i \in DOMAIN cache.events |-> StringifyEvent(cache.events[i])],
     recordedAt  |-> cache.recordedAt,
     totalDuration |-> cache.totalDuration,
     isComplete  |-> cache.isComplete]

\* JSON.parse(cached) of an object text: the fields the text holds
ParseCache(text) ==
    [f \in DOMAIN text \ {"json"} |->
        IF f = "events"
        THEN [i \in DOMAIN text[f] |-> ParseEvent(text[f][i])]
        ELSE text[f]]

StringifyIndex(index) == [json |-> "array", items |-> index]

ParseIndex(text) == text.items

Includes(seq, x) == \E i \in DOMAIN seq : seq[i] = x

\* the validity test without its isComplete part
InvalidSessionEventsOnly(session) ==
    \/ "events" \notin DOMAIN session
    \/ Len(session.events) = 0

\* `!session.isComplete || !session.events || session.events.length === 0`
InvalidSession(session) ==
    \/ "isComplete" \notin DOMAIN session
    \/ session.isComplete # TRUE
    \/ "events" \notin DOMAIN session
    \/ Len(session.events) = 0

getCache(ls, prompt) ==
    LET hash   == hashPrompt(Normalize(prompt))
        cached == getItem(ls, CacheKey(hash))
    IN  IF IsNull(cached) THEN Null
        ELSE IF cached.json = "corrupt" THEN Null   \* JSON.parse throws, caught
        ELSE IF cached.json = "null" THEN Null      \* null.isComplete throws, caught
        ELSE LET session == ParseCache(cached)
             IN  IF InvalidSession(session) THEN Null ELSE session

\* saveCache without the `index.includes` test
saveCacheAlwaysPush(ls, cache) ==
    LET ls1      == setItem(ls, CacheKey(cache.promptHash), StringifyCache(cache))
        indexStr == getItem(ls1, IndexKey)
        index    == IF IsNull(indexStr) THEN <<>> ELSE ParseIndex(indexStr)
    IN  setItem(ls1, IndexKey, StringifyIndex(Append(index, cache.promptHash)))

saveCache(ls, cache) ==
    LET ls1      == setItem(ls, CacheKey(cache.promptHash), StringifyCache(cache))
        indexStr == getItem(ls1, IndexKey)
        index    == IF IsNull(indexStr) THEN <<>> ELSE ParseIndex(indexStr)
    IN  IF ~Includes(index, cache.promptHash)
        THEN setItem(ls1, IndexKey, StringifyIndex(Append(index, cache.promptHash)))
        ELSE ls1

----------------------------------------------------------------------------
(* Cache store with storage faults.  A call of getItem, setItem or          *)
(* removeItem can throw (storage disabled, quota exceeded); `fault` is the  *)
(* number, within one operation, of the storage call that throws, 0 for     *)
(* none.  JSON.parse throws on a text that is not JSON, and reading a field *)
(* of a parsed `null` throws.  A Body operator is the inside of the `try`:  *)
(* it gives the storage it leaves, its return value and whether an          *)
(* exception left the block; a Try operator adds the `catch`.               *)

\* what an operation's call comes to: storage, return value, whether an
\* exception was caught inside, whether one reached the caller
Outcome(ls, result, caught, threw) ==
    [ls |-> ls, result |-> result, caught |-> caught, threw |-> threw]

\* the `try` block ended by an exception, leaving storage `ls`
Raised(ls) == [ls |-> ls, result |-> Null, exception |-> TRUE]

\* the `try` block ran to its end or to a return
Returned(ls, result) == [ls |-> ls, result |-> result, exception |-> FALSE]

\* JSON.parse(indexStr) gives an array
IsArrayText(text) == text.json = "array"

\* JSON.parse(cached) gives an object
IsObjectText(text) == text.json = "object"

getCacheBody(ls, prompt, fault) ==
    LET hash   == hashPrompt(Normalize(prompt))
        cached == getItem(ls, CacheKey(hash))
    IN  IF fault = 1 THEN Raised(ls)                        \* getItem throws
        ELSE IF IsNull(cached) THEN Returned(ls, Null)
        ELSE IF ~IsObjectText(cached) THEN Raised(ls)       \* parse / null.isComplete
        ELSE LET session == ParseCache(cached)
             IN  IF InvalidSession(session) THEN Returned(ls, Null)
                 ELSE Returned(ls, session)

\* getCache whose catch block throws the error again
getCacheRethrow(ls, prompt, fault) ==
    LET b == getCacheBody(ls, prompt, fault)
    IN  Outcome(b.ls, b.result, FALSE, b.exception)

\* getCache: `catch (error) { ...; return null; }`
getCacheTry(ls, prompt, fault) ==
    LET b == getCacheBody(ls, prompt, fault)
    IN  IF b.exception THEN Outcome(b.ls, Null, TRUE, FALSE)
        ELSE Outcome(b.ls, b.result, FALSE, FALSE)

\* the try block of saveCache with the index updated without the includes test
saveCacheBodyAlwaysPush(ls, cache, fault) ==
    LET ls1      == setItem(ls, CacheKey(cache.promptHash), StringifyCache(cache))
        indexStr == getItem(ls1, IndexKey)
    IN  IF fault = 1 THEN Raised(ls)
        ELSE IF fault = 2 THEN Raised(ls1)
        ELSE IF ~IsNull(indexStr) /\ ~IsArrayText(indexStr) THEN Raised(ls1)
        ELSE LET index == IF IsNull(indexStr) THEN << >> ELSE ParseIndex(indexStr)
             IN  IF fault = 3 THEN Raised(ls1)
                 ELSE Returned(setItem(ls1, IndexKey,
                                 StringifyIndex(Append(index, cache.promptHash))),
                               Null)

saveCacheBody(ls, cache, fault) ==
    LET ls1      == setItem(ls, CacheKey(cache.promptHash), StringifyCache(cache))
        indexStr == getItem(ls1, IndexKey)
    IN  IF fault = 1 THEN Raised(ls)                        \* setItem(key) throws
        ELSE IF fault = 2 THEN Raised(ls1)                  \* getItem(index) throws
        ELSE IF ~IsNull(indexStr) /\ ~IsArrayText(indexStr)
        THEN Raised(ls1)                                    \* parse / null.includes
        ELSE LET index == IF IsNull(indexStr) THEN << >> ELSE ParseIndex(indexStr)
             IN  IF Includes(index, cache.promptHash) THEN Returned(ls1, Null)
                 ELSE IF fault = 3 THEN Raised(ls1)         \* setItem(index) throws
                 ELSE Returned(setItem(ls1, IndexKey,
                                 StringifyIndex(Append(index, cache.promptHash))),
                               Null)

\* saveCache: `catch (error) { console.error(...) }`
saveCacheTry(ls, cache, fault) ==
    LET b == saveCacheBody(ls, cache, fault)
    IN  Outcome(b.ls, Null, b.exception, FALSE)

\* storage `ls` without the entries of the first n hashes of `index`
RemoveEntries(ls, index, n) ==
    [k \in DOMAIN ls \ { CacheKey(index[i]) : i \in 1..n } |-> ls[k]]

\* the try block of clearAllCache without its last removeItem
clearAllCacheBodyKeepIndex(ls, fault) ==
    LET indexStr == getItem(ls, IndexKey)
    IN  IF fault = 1 THEN Raised(ls)
        ELSE IF ~IsNull(indexStr) /\ ~IsArrayText(indexStr) THEN Raised(ls)
        ELSE LET index == IF IsNull(indexStr) THEN << >> ELSE ParseIndex(indexStr)
             IN  IF fault \in 2..(Len(index) + 1)
                 THEN Raised(RemoveEntries(ls, index, fault - 2))
                 ELSE Returned(RemoveEntries(ls, index, Len(index)), Null)

clearAllCacheBody(ls, fault) ==
    LET indexStr == getItem(ls, IndexKey)
    IN  IF fault = 1 THEN Raised(ls)                        \* getItem(index) throws
        ELSE IF ~IsNull(indexStr) /\ ~IsArrayText(indexStr) THEN Raised(ls)
        ELSE LET index == IF IsNull(indexStr) THEN << >> ELSE ParseIndex(indexStr)
                 all   == RemoveEntries(ls, index, Len(index))
             IN  IF fault \in 2..(Len(index) + 1)           \* a removeItem throws
                 THEN Raised(RemoveEntries(ls, index, fault - 2))
                 ELSE IF fault = Len(index) + 2 THEN Raised(all)
                 ELSE Returned(removeItem(all, IndexKey), Null)

\* clearAllCache: `catch (error) { console.error(...) }`
clearAllCacheTry(ls, fault) ==
    LET b == clearAllCacheBody(ls, fault)
    IN  Outcome(b.ls, Null, b.exception, FALSE)

\* the callback of index.map throws for this hash: getItem throws, the text
\* is not JSON, or it is the JSON null (null.prompt)
EntryThrows(ls, hash, faulty) ==
    \/ faulty
    \/ /\ ~IsNull(getItem(ls, CacheKey(hash)))
       /\ ~IsObjectText(getItem(ls, CacheKey(hash)))

\* what the callback of index.map returns for this hash: session.prompt, or ''
\* for a missing entry (and for an entry without a prompt, which filter(Boolean)
\* drops as it drops '')
EntryPrompt(ls, hash) ==
    LET cached == getItem(ls, CacheKey(hash))
    IN  IF IsNull(cached) THEN << >>
        ELSE IF "prompt" \in DOMAIN cached THEN cached.prompt
        ELSE << >>

RECURSIVE FilterNonEmpty(_)
\* .filter(Boolean) on an array of strings
FilterNonEmpty(seq) ==
    IF seq = << >> THEN << >>
    ELSE IF Head(seq) = << >> THEN FilterNonEmpty(Tail(seq))
    ELSE <<Head(seq)>> \o FilterNonEmpty(Tail(seq))

listCachedPromptsBody(ls, fault) ==
    LET indexStr == getItem(ls, IndexKey)
    IN  IF fault = 1 THEN Raised(ls)                        \* getItem(index) throws
        ELSE IF ~IsNull(indexStr) /\ ~IsArrayText(indexStr) THEN Raised(ls)
        ELSE LET index == IF IsNull(indexStr) THEN << >> ELSE ParseIndex(indexStr)
             IN  IF \E i \in DOMAIN index : EntryThrows(ls, index[i], fault = i + 1)
                 THEN Raised(ls)
                 ELSE Returned(ls,
                        FilterNonEmpty([i \in DOMAIN index |-> EntryPrompt(ls, index[i])]))

\* listCachedPrompts: `catch { return []; }`
listCachedPromptsTry(ls, fault) ==
    LET b == listCachedPromptsBody(ls, fault)
    IN  IF b.exception THEN Outcome(b.ls, << >>, TRUE, FALSE)
        ELSE Outcome(b.ls, b.result, FALSE, FALSE)

----------------------------------------------------------------------------
(* Event recorder: createRecorder / recordEvent / finalizeRecording *)

\* createRecorder hashing the raw prompt
createRecorderRawHash(prompt, t) ==
    [promptHash    |-> hashPrompt(prompt),
     prompt        |-> prompt,
     events        |-> <<>>,
     startTime     |-> t,
     lastEventTime |-> t,
     isFinalized   |-> FALSE]

createRecorder(prompt, t) ==
    [promptHash    |-> hashPrompt(Normalize(prompt)),
     prompt        |-> prompt,
     events        |-> <<>>,
     startTime     |-> t,
     lastEventTime |-> t,
     isFinalized   |-> FALSE]

\* recordEvent without the isFinalized gate
recordEventNoGate(recorder, type, data, t) ==
    [recorder EXCEPT
        !.events = Append(@, [type |-> type, data |-> data,
                              timestamp |-> t,
                              delay |-> t - recorder.lastEventTime]),
        !.lastEventTime = t]

\* recordEvent that never advances lastEventTime
recordEventStaleLast(recorder, type, data, t) ==
    IF recorder.isFinalized
    THEN recorder
    ELSE [recorder EXCEPT
            !.events = Append(@, [type |-> type, data |-> data,
                                  timestamp |-> t,
                                  delay |-> t - recorder.lastEventTime])]

\* recordEvent measuring the delay from the recorder's start
recordEventDelayFromStart(recorder, type, data, t) ==
    IF recorder.isFinalized THEN recorder
    ELSE [recorder EXCEPT
            !.events = Append(@, [type |-> type, data |-> data, timestamp |-> t,
                                  delay |-> t - recorder.startTime]),
            !.lastEventTime = t]

\* recordEvent putting the new event at the front of the array
recordEventPrepend(recorder, type, data, t) ==
    IF recorder.isFinalized THEN recorder
    ELSE [recorder EXCEPT
            !.events = <<[type |-> type, data |-> data, timestamp |-> t,
                          delay |-> t - recorder.lastEventTime]>> \o @,
            !.lastEventTime = t]

recordEvent(recorder, type, data, t) ==
    IF recorder.isFinalized
    THEN recorder
    ELSE [recorder EXCEPT
            !.events = Append(@, [type |-> type, data |-> data,
                                  timestamp |-> t,
                                  delay |-> t - recorder.lastEventTime]),
            !.lastEventTime = t]

\* the SessionCache built (and returned) by finalizeRecording
finalCache(recorder, t) ==
    [promptHash    |-> recorder.promptHash,
     prompt        |-> recorder.prompt,
     events        |-> recorder.events,
     recordedAt    |-> t,
     totalDuration |-> t - recorder.startTime,
     isComplete    |-> TRUE]

\* finalizeRecording when the storage may fault: saveCache handles the fault
\* and the recording is returned all the same
finalizeRecordingTry(recorder, ls, t, fault) ==
    LET cache == finalCache(recorder, t)
        saved == saveCacheTry(ls, cache, fault)
    IN  Outcome(saved.ls, cache, saved.caught, saved.threw)

----------------------------------------------------------------------------
(* Application state: the zustand store of agentStore.ts *)

\* `undefined` (a field that a message or an object does not hold)
Undefined == "undefined"

\* message[f], undefined when the message has no such field
Field(m, f) == IF f \in DOMAIN m THEN m[f] ELSE Undefined

\* JavaScript truthiness of a payload value (payload values are strings)
Truthy(v) == v # Undefined /\ v # ""

\* a || b
OrElse(a, b) == IF Truthy(a) THEN a ELSE b

\* { ...a, ...updates }
Merge(a, updates) ==
    [f \in DOMAIN a \cup DOMAIN updates |->
        IF f \in DOMAIN updates THEN updates[f] ELSE a[f]]

\* an id taken from a message, and the ids built from Date.now()
MsgId(s) == <<s>>

ClockId(prefix, t) == <<prefix, t>>

NoTime == << >>

initialState ==
    [sessionId     |-> "null",
     sessionStatus |-> "idle",
     sessionError  |-> "null",
     startTime     |-> NoTime,
     duration      |-> "null",
     agents        |-> << >>,
     finalResult   |-> Null,
     flowTrace     |-> "[]"]

\* sessionId ?? get().sessionId ; error ?? null
setSessionStatus(st, status, sessionId, error) ==
    [st EXCEPT
        !.sessionStatus = status,
        !.sessionId     = IF sessionId = Undefined THEN st.sessionId ELSE sessionId,
        !.sessionError  = IF error = Undefined THEN "null" ELSE error]

setStartTime(st, time) == [st EXCEPT !.startTime = <<time>>]

setDuration(st, duration) == [st EXCEPT !.duration = duration]

addAgent(st, agent) == [st EXCEPT !.agents = Append(@, agent)]

updateAgent(st, agentId, updates) ==
    [st EXCEPT !.agents =
        [i \in DOMAIN @ |-> IF @[i].id = agentId THEN Merge(@[i], updates) ELSE @[i]]]

addToolCall(st, agentId, toolCall) ==
    [st EXCEPT !.agents =
        [i \in DOMAIN @ |->
            IF @[i].id = agentId
            THEN [@[i] EXCEPT !.toolCalls = Append(@, toolCall)]
            ELSE @[i]]]

completeToolCall(st, agentId, toolCallId, result) ==
    [st EXCEPT !.agents =
        [i \in DOMAIN @ |->
            IF @[i].id = agentId
            THEN [@[i] EXCEPT !.toolCalls =
                    [j \in DOMAIN @ |->
                        IF @[j].id = toolCallId
                        THEN Merge(Merge(@[j], result), [status |-> "complete"])
                        ELSE @[j]]]
            ELSE @[i]]]

setFinalResult(st, result) == [st EXCEPT !.finalResult = result]

setFlowTrace(st, trace) == [st EXCEPT !.flowTrace = trace]

\* Array.prototype.find: index of the first element satisfying the test, 0 if none
FindAgent(agents, agentId) ==
    IF \E i \in DOMAIN agents : agents[i].id = agentId
    THEN CHOOSE i \in DOMAIN agents :
            /\ agents[i].id = agentId
            /\ \A k \in 1..(i - 1) : agents[k].id # agentId
    ELSE 0

FindRunningTool(toolCalls) ==
    IF \E j \in DOMAIN toolCalls : toolCalls[j].status = "running"
    THEN CHOOSE j \in DOMAIN toolCalls :
            /\ toolCalls[j].status = "running"
            /\ \A k \in 1..(j - 1) : toolCalls[k].status # "running"
    ELSE 0

\* the object passed to setFinalResult, built from `r` (the message itself for
\* final_result, message.final_response for session_complete)
FinalResultOf(r) ==
    [safetyScore        |-> Field(r, "safety_score"),
     rating             |-> Field(r, "rating"),
     analysis           |-> OrElse(Field(r, "analysis"), Field(r, "summary")),
     summary            |-> Field(r, "summary"),
     recommendations    |-> OrElse(Field(r, "recommendations"), "[]"),
     coordinates        |-> OrElse(Field(r, "coordinates"), "[]"),
     data               |-> OrElse(Field(r, "data"), "[]"),
     sql                |-> Field(r, "sql"),
     incident_breakdown |-> Field(r, "incident_breakdown")]

\* the part common to the session_complete and final_result cases:
\* status, duration and flow trace
CompleteSession(st, data) ==
    LET s1 == setSessionStatus(st, "complete", Undefined, Undefined)
        s2 == IF Truthy(Field(data, "duration_ms"))
              THEN setDuration(s1, data.duration_ms) ELSE s1
    IN  IF Truthy(Field(data, "flow_trace"))
        THEN setFlowTrace(s2, data.flow_trace) ELSE s2

----------------------------------------------------------------------------
(* Event player: player.ts *)

REPLAY_SPEED_PERCENT == 15      \* REPLAY_SPEED = 0.15

MIN_DELAY == 50

MAX_DELAY == 800

Max(a, b) == IF a >= b THEN a ELSE b

Min(a, b) == IF a <= b THEN a ELSE b

\* Math.round(originalDelay * REPLAY_SPEED): nearest integer, ties upwards
\* (for integer delays up to 200000 the double product rounds the same way)
RoundScaled(originalDelay) ==
    (originalDelay * REPLAY_SPEED_PERCENT + 50) \div 100

\* scaleDelay without the MIN_DELAY floor
scaleDelayNoFloor(originalDelay) ==
    Min(MAX_DELAY, RoundScaled(originalDelay))

\* scaleDelay: the wait before the next event, clamped to [MIN_DELAY, MAX_DELAY]
scaleDelay(originalDelay) ==
    Max(MIN_DELAY, Min(MAX_DELAY, RoundScaled(originalDelay)))

\* the event types processEvent has a case for; each case reads fields of data
PlayerCases ==
    { "session_started", "agent_spawned", "tool_called", "tool_result",
      "agent_complete", "session_complete", "final_result", "session_error" }

\* processEvent throws on this event: its case reads a field of a `data` that
\* is null
EventThrows(event) == event.type \in PlayerCases /\ IsNull(event.data)

\* the replayCache call has resolved ("done") or rejected ("thrown")
Settled(rep) == rep.pc \in {"done", "thrown"}

\* processEvent: the store after the player has applied one cached event at time t
processEvent(st, event, t) ==
    LET type == event.type
        data == event.data
    IN  CASE type = "session_started" ->
                addAgent(
                    setSessionStatus(st, "running", Field(data, "request_id"), Undefined),
                    [id          |-> MsgId(OrElse(Field(data, "request_id"), "orchestrator")),
                     type        |-> "orchestrator",
                     description |-> OrElse(Field(data, "description"), "Processing query"),
                     status      |-> "running",
                     toolCalls   |-> << >>,
                     startedAt   |-> t])
          [] type = "agent_spawned" ->
                addAgent(st,
                    [id          |-> MsgId(Field(data, "agent_id")),
                     type        |-> OrElse(Field(data, "agent_type"), "data-agent"),
                     description |-> Field(data, "description"),
                     status      |-> "running",
                     inputId     |-> Field(data, "input_id"),
                     toolCalls   |-> << >>,
                     startedAt   |-> t])
          [] type = "tool_called" ->
                IF Truthy(Field(data, "agent_id"))
                THEN addToolCall(st, MsgId(data.agent_id),
                        [id     |-> ClockId("tool-", t),
                         name   |-> OrElse(Field(data, "tool_name"), "unknown"),
                         input  |-> OrElse(Field(data, "tool_input"), "{}"),
                         status |-> "running"])
                ELSE st
          [] type = "tool_result" ->
                IF Truthy(Field(data, "agent_id"))
                THEN LET a == FindAgent(st.agents, MsgId(data.agent_id))
                         j == IF a = 0 THEN 0 ELSE FindRunningTool(st.agents[a].toolCalls)
                     IN  IF j # 0
                         THEN completeToolCall(st, MsgId(data.agent_id),
                                st.agents[a].toolCalls[j].id,
                                [status   |-> "complete",
                                 rowCount |-> Field(data, "row_count")])
                         ELSE st
                ELSE st
          [] type = "agent_complete" ->
                IF Truthy(Field(data, "agent_id"))
                THEN updateAgent(st, MsgId(data.agent_id),
                        [status      |-> "complete",
                         completedAt |-> t,
                         output      |-> Field(data, "output_summary")])
                ELSE st
          [] type = "session_complete" ->
                IF "final_response" \in DOMAIN data
                THEN setFinalResult(CompleteSession(st, data),
                                    FinalResultOf(data.final_response))
                ELSE CompleteSession(st, data)
          [] type = "final_result" ->
                setFinalResult(CompleteSession(st, data), FinalResultOf(data))
          [] type = "session_error" ->
                setSessionStatus(st, "error", Undefined, Field(data, "error"))
          [] OTHER -> st

\* a replay loop that started at the second event
NewReplayFromSecond(events) ==
    [events |-> events, i |-> 2, pc |-> "start", timer |-> 0,
     waits |-> << >>, applied |-> << >>]

\* a replayCache(cache) call that has not run yet.  `i` is the 1-based
\* position of the next event (the loop index plus one), `timer` the pending
\* sleep; `waits` and `applied` log the sleeps made and the processEvent calls.
NewReplay(events) ==
    [events |-> events, i |-> 1, pc |-> "start", timer |-> 0,
     waits |-> << >>, applied |-> << >>]

\* a replay loop that sleeps once more after the last event
ReplayIterationSleepsAfterLast(rep, st, t) ==
    IF rep.i > Len(rep.events)
    THEN [rep |-> [rep EXCEPT !.pc = "done", !.timer = 0], store |-> st]
    ELSE IF EventThrows(rep.events[rep.i])
    THEN [rep |-> [rep EXCEPT !.pc = "thrown", !.timer = 0], store |-> st]
    ELSE LET e == rep.events[rep.i]
         IN  [rep |-> [rep EXCEPT
                        !.i       = rep.i + 1,
                        !.pc      = "sleep",
                        !.timer   = MIN_DELAY,
                        !.applied = Append(@, [index |-> rep.i, type |-> e.type,
                                               data |-> e.data]),
                        !.waits   = Append(@, [index |-> rep.i + 1, ms |-> MIN_DELAY])],
              store |-> processEvent(st, e, t)]

\* One run of replayCache between two suspensions: apply the event at the
\* current position, then either start the sleep before the next event or
\* finish.  `await processEvent` resumes in a microtask, before anything else
\* can run, so the two halves are one step.
ReplayIteration(rep, st, t) ==
    IF rep.i > Len(rep.events)
    THEN [rep |-> [rep EXCEPT !.pc = "done", !.timer = 0], store |-> st]
    ELSE IF EventThrows(rep.events[rep.i])
    THEN [rep |-> [rep EXCEPT !.pc = "thrown", !.timer = 0], store |-> st]
    ELSE LET e    == rep.events[rep.i]
             next == rep.i + 1
             more == next <= Len(rep.events)
             ms   == IF more THEN scaleDelay(rep.events[next].delay) ELSE 0
         IN  [rep |-> [rep EXCEPT
                        !.i       = next,
                        !.pc      = IF more THEN "sleep" ELSE "done",
                        !.timer   = ms,
                        !.applied = Append(@, [index |-> rep.i, type |-> e.type,
                                               data |-> e.data]),
                        !.waits   = IF more
                                    THEN Append(@, [index |-> next, ms |-> ms])
                                    ELSE @],
              store |-> processEvent(st, e, t)]

\* the synchronous part of replayCache: setStartTime, then the loop up to its
\* first sleep
ReplayBegin(rep, st, t) == ReplayIteration(rep, setStartTime(st, t), t)

----------------------------------------------------------------------------
(* Live handler: the switch of handleEvent in useSafeSFWebSocket *)

\* the store after handleEvent has applied `message` at time t
handleEventStore(st, message, t) ==
    LET type == message.type
    IN  CASE type = "session_started" ->
                addAgent(
                    setStartTime(
                        setSessionStatus(st, "running", Field(message, "request_id"), Undefined),
                        t),
                    [id          |-> MsgId(OrElse(Field(message, "request_id"), "orchestrator")),
                     type        |-> "orchestrator",
                     description |-> OrElse(Field(message, "description"), "Processing query"),
                     status      |-> "running",
                     toolCalls   |-> << >>,
                     startedAt   |-> t])
          [] type = "agent_spawned" ->
                addAgent(st,
                    [id          |-> IF Truthy(Field(message, "agent_id"))
                                     THEN MsgId(message.agent_id)
                                     ELSE ClockId("agent-", t),
                     type        |-> OrElse(Field(message, "agent_type"), "data-agent"),
                     description |-> Field(message, "description"),
                     status      |-> "running",
                     inputId     |-> Field(message, "input_id"),
                     toolCalls   |-> << >>,
                     startedAt   |-> t])
          [] type = "tool_called" ->
                IF Truthy(Field(message, "agent_id"))
                THEN addToolCall(st, MsgId(message.agent_id),
                        [id     |-> ClockId("tool-", t),
                         name   |-> OrElse(Field(message, "tool_name"), "unknown"),
                         input  |-> OrElse(Field(message, "tool_input"), "{}"),
                         status |-> "running"])
                ELSE st
          [] type = "tool_result" ->
                IF Truthy(Field(message, "agent_id"))
                THEN LET a == FindAgent(st.agents, MsgId(message.agent_id))
                         j == IF a = 0 THEN 0 ELSE FindRunningTool(st.agents[a].toolCalls)
                         resultData ==
                             OrElse(Field(message, "tool_result"),
                                OrElse(Field(message, "data"),
                                   OrElse(Field(message, "coordinates"), "null")))
                     IN  IF j # 0
                         THEN completeToolCall(st, MsgId(message.agent_id),
                                st.agents[a].toolCalls[j].id,
                                [status   |-> "complete",
                                 rowCount |-> Field(message, "row_count"),
                                 result   |-> resultData])
                         ELSE st
                ELSE st
          [] type = "data_received" -> st
          [] type = "agent_complete" ->
                IF Truthy(Field(message, "agent_id"))
                THEN updateAgent(st, MsgId(message.agent_id),
                        [status      |-> IF Field(message, "status") = "completed"
                                         THEN "complete"
                                         ELSE Field(message, "status"),
                         completedAt |-> t,
                         output      |-> Field(message, "output_summary")])
                ELSE st
          [] type = "session_complete" ->
                IF "final_response" \in DOMAIN message
                THEN setFinalResult(CompleteSession(st, message),
                                    FinalResultOf(message.final_response))
                ELSE CompleteSession(st, message)
          [] type = "session_error" ->
                setSessionStatus(st, "error", Undefined, Field(message, "error"))
          [] type = "final_result" ->
                setFinalResult(CompleteSession(st, message), FinalResultOf(message))
          [] type = "error" ->
                setSessionStatus(st, "error", Undefined, Field(message, "error"))
          [] OTHER -> st

----------------------------------------------------------------------------
(* Specification SpecRec: one controller driving the recorder and the store *)

NoCall == [prompt |-> << >>, result |-> Null]

\* no cache-store operation has been called directly yet
NoStoreCall == [name |-> "none"]

InitRec ==
    /\ now = 0
    /\ localStorage = << >>
    /\ recorderRef = Null
    /\ got = NoCall
    /\ op = "init"
    /\ created = 0
    /\ firstCache = Null
    /\ recorded = << >>
    /\ store = initialState
    /\ replays = << >>
    /\ isReplaying = FALSE
    /\ cacheEnabled = TRUE
    /\ isConnected = TRUE
    /\ sent = << >>
    /\ inbox = << >>
    /\ started = 0
    /\ lastQuery = << >>
    /\ owner = 0
    /\ liveStore = Null
    /\ liveEvents = << >>
    /\ call = NoStoreCall
    /\ heap = << >>
    /\ arrived = << >>
    /\ tabs = << >>
    /\ overlapped = FALSE

\* time passes between two calls of Date.now()
Tick ==
    /\ now < MaxTime
    /\ now' = now + 1
    /\ op' = "tick"
    /\ got' = NoCall
    /\ UNCHANGED <<localStorage, recorderRef, created, firstCache, recorded>>
    /\ UNCHANGED appVars
    /\ UNCHANGED sessVars
    /\ UNCHANGED auxVars

CreateRecorder(p) ==
    /\ created < MaxRecorders
    /\ recorderRef' = createRecorder(p, now)
    /\ created' = created + 1
    /\ firstCache' = Null
    /\ recorded' = << >>
    /\ op' = "createRecorder"
    /\ got' = NoCall
    /\ UNCHANGED <<now, localStorage>>
    /\ UNCHANGED appVars
    /\ UNCHANGED sessVars
    /\ UNCHANGED auxVars

RecordEvent(in) ==
    /\ ~IsNull(recorderRef)
    /\ recorderRef.isFinalized \/ Len(recorderRef.events) < MaxEvents
    /\ recorderRef' = recordEvent(recorderRef, in.type, in.data, now)
    /\ recorded' = IF recorderRef.isFinalized THEN recorded
                   ELSE Append(recorded, [type |-> in.type, data |-> in.data, at |-> now])
    /\ op' = "recordEvent"
    /\ got' = NoCall
    /\ UNCHANGED <<now, localStorage, created, firstCache>>
    /\ UNCHANGED appVars
    /\ UNCHANGED sessVars
    /\ UNCHANGED auxVars

FinalizeRecording ==
    /\ ~IsNull(recorderRef)
    /\ recorderRef' = [recorderRef EXCEPT !.isFinalized = TRUE]
    /\ localStorage' = saveCache(localStorage, finalCache(recorderRef, now))
    /\ firstCache' = IF IsNull(firstCache) THEN finalCache(recorderRef, now)
                     ELSE firstCache
    /\ op' = "finalizeRecording"
    /\ got' = NoCall
    /\ UNCHANGED <<now, created, recorded>>
    /\ UNCHANGED appVars
    /\ UNCHANGED sessVars
    /\ UNCHANGED auxVars

GetCache(q) ==
    /\ got' = [prompt |-> q, result |-> getCache(localStorage, q)]
    /\ op' = "getCache"
    /\ UNCHANGED <<now, localStorage, recorderRef, created, firstCache, recorded>>
    /\ UNCHANGED appVars
    /\ UNCHANGED sessVars
    /\ UNCHANGED auxVars

NextRec ==
    \/ Tick
    \/ \E p \in RecPrompts : CreateRecorder(p)
    \/ \E in \in RecInputs : RecordEvent(in)
    \/ FinalizeRecording
    \/ \E q \in Prompts : GetCache(q)

SpecRec == InitRec /\ [][NextRec]_vars

----------------------------------------------------------------------------
(* Properties of the recorder and the store, checked under SpecRec *)

\* the recording stored under the current recorder's hash, parsed
StoredRecording ==
    ParseCache(getItem(localStorage, CacheKey(recorderRef.promptHash)))

Finalized == ~IsNull(recorderRef) /\ recorderRef.isFinalized

\* C1: round trip through the store.  Once a recorder that recorded e1..en
\* (n >= 1) is finalized, the persisted recording's events are e1..en in
\* order, with the type, data, timestamp and delay recordEvent gave them, and
\* getCache(q) returns a recording with that event sequence for every q whose
\* lower-cased, trimmed text equals that of the recorder's prompt.
C1_RoundTrip ==
    (Finalized /\ Len(recorded) >= 1) =>
        /\ Len(StoredRecording.events) = Len(recorded)
        /\ \A i \in DOMAIN recorded :
              /\ StoredRecording.events[i].type = recorded[i].type
              /\ StoredRecording.events[i].data = recorded[i].data
              /\ StoredRecording.events[i].timestamp = recorded[i].at
              /\ StoredRecording.events[i] = recorderRef.events[i]
        /\ \A q \in Prompts :
              Normalize(q) = Normalize(recorderRef.prompt) =>
                  /\ ~IsNull(getCache(localStorage, q))
                  /\ getCache(localStorage, q).events = recorderRef.events
        /\ (got # NoCall /\ Normalize(got.prompt) = Normalize(recorderRef.prompt)) =>
              /\ ~IsNull(got.result)
              /\ got.result.events = recorderRef.events

\* a getCache call with a differently written prompt returned the two events
\* a finalized recorder had recorded
C1_Witness ==
    /\ Finalized
    /\ Len(recorded) = 2
    /\ got # NoCall
    /\ got.prompt # recorderRef.prompt
    /\ ~IsNull(got.result)
    /\ Len(got.result.events) = 2
    /\ got.result.events[2].delay > 0

\* C4: finalize is a one-way gate.  In every step taken on a finalized
\* recorder (any step that does not create a new recorder), isFinalized stays
\* true and events and lastEventTime are unchanged; in particular a recordEvent
\* call changes nothing.
C4_FinalizeGate ==
    [][(Finalized /\ created' = created) =>
          /\ recorderRef'.isFinalized
          /\ recorderRef'.events = recorderRef.events
          /\ recorderRef'.lastEventTime = recorderRef.lastEventTime]_vars

\* recordEvent was called on a finalized recorder, later than its last event
C4_Witness ==
    /\ Finalized
    /\ op = "recordEvent"
    /\ Len(recorderRef.events) >= 1
    /\ now > recorderRef.lastEventTime

CountOf(seq, x) == Cardinality({i \in DOMAIN seq : seq[i] = x})

StoredIndex == ParseIndex(getItem(localStorage, IndexKey))

\* C5: finalize idempotence.  After any number of finalizeRecording calls on a
\* recorder (one or more), the store holds one entry under the recorder's
\* hash, the index lists that hash exactly once, and the stored events are
\* those the first call stored.
C5_FinalizeIdempotent ==
    (~IsNull(recorderRef) /\ ~IsNull(firstCache)) =>
        /\ Cardinality({k \in DOMAIN localStorage :
                           k = CacheKey(recorderRef.promptHash)}) = 1
        /\ CountOf(StoredIndex, recorderRef.promptHash) = 1
        /\ StoredRecording.events = firstCache.events

\* a second finalizeRecording call, made later than the first, has overwritten
\* the entry
C5_Witness ==
    /\ ~IsNull(recorderRef)
    /\ ~IsNull(firstCache)
    /\ op = "finalizeRecording"
    /\ Len(firstCache.events) >= 1
    /\ StoredRecording.recordedAt > firstCache.recordedAt

\* C9: in every recorder state every event has delay >= 0, timestamps do not
\* decrease along the sequence, and each delay is the event's timestamp minus
\* the previous event's timestamp (minus startTime for the first event).
\* Date.now() is taken as non-decreasing between calls.
C9_DelayOrdering ==
    ~IsNull(recorderRef) =>
        \A i \in DOMAIN recorderRef.events :
            LET e    == recorderRef.events[i]
                prev == IF i = 1 THEN recorderRef.startTime
                        ELSE recorderRef.events[i - 1].timestamp
            IN  /\ e.delay >= 0
                /\ e.timestamp >= prev
                /\ e.delay = e.timestamp - prev

\* two events recorded at different times after the recorder's creation
C9_Witness ==
    /\ ~IsNull(recorderRef)
    /\ Len(recorderRef.events) = 2
    /\ recorderRef.events[1].delay > 0
    /\ recorderRef.events[2].delay > 0

----------------------------------------------------------------------------
(* Specification SpecGate: getCache applied to arbitrary stored entries *)

GateEvent1 == <<"session_started", [request_id |-> "r1"], 1, 1>>

GateEvent2 == <<"session_complete", [duration_ms |-> 7], 2, 1>>

GateEventSeqs == { << >>, <<GateEvent1>>, <<GateEvent1, GateEvent2>> }

\* texts that may sit under a cache key: not JSON, the JSON text `null`, and
\* objects with or without isComplete and events
StoredTexts ==
    { [json |-> "corrupt"], [json |-> "null"] }
    \cup { [json |-> "object", prompt |-> <<97>>] }
    \cup { [json |-> "object", prompt |-> <<97>>, isComplete |-> c] : c \in BOOLEAN }
    \cup { [json |-> "object", prompt |-> <<97>>, events |-> es] : es \in GateEventSeqs }
    \cup { [json |-> "object", prompt |-> <<97>>, isComplete |-> c, events |-> es] :
              c \in BOOLEAN, es \in GateEventSeqs }

GateKeys == { CacheKey(hashPrompt(Normalize(p))) : p \in Prompts }

InitGate ==
    /\ now = 0
    /\ \E ks \in SUBSET GateKeys : localStorage \in [ks -> StoredTexts]
    /\ recorderRef = Null
    /\ got = NoCall
    /\ op = "init"
    /\ created = 0
    /\ firstCache = Null
    /\ recorded = << >>
    /\ store = initialState
    /\ replays = << >>
    /\ isReplaying = FALSE
    /\ cacheEnabled = TRUE
    /\ isConnected = TRUE
    /\ sent = << >>
    /\ inbox = << >>
    /\ started = 0
    /\ lastQuery = << >>
    /\ owner = 0
    /\ liveStore = Null
    /\ liveEvents = << >>
    /\ call = NoStoreCall
    /\ heap = << >>
    /\ arrived = << >>
    /\ tabs = << >>
    /\ overlapped = FALSE

NextGate == \E q \in Prompts : GetCache(q)

SpecGate == InitGate /\ [][NextGate]_vars

\* the text under the key of the prompt of the last getCache call
GotText == getItem(localStorage, CacheKey(hashPrompt(Normalize(got.prompt))))

\* the text is a JSON object whose isComplete is true and whose events
\* sequence is present with at least one element
ValidText(text) ==
    /\ ~IsNull(text)
    /\ text.json = "object"
    /\ "isComplete" \in DOMAIN text
    /\ text.isComplete
    /\ "events" \in DOMAIN text
    /\ text.events # << >>

\* C6: cache validity gate.  getCache returns absent for a stored entry whose
\* isComplete is false (or missing) or whose events sequence is missing or
\* empty, even when the entry parses; it returns a recording, the parsed
\* entry, only when isComplete is true and events has at least one element.
C6_ValidityGate ==
    got # NoCall =>
        /\ IsNull(got.result) <=> ~ValidText(GotText)
        /\ ~IsNull(got.result) =>
              /\ got.result.isComplete
              /\ Len(got.result.events) = Len(GotText.events)
              /\ \A i \in DOMAIN got.result.events :
                    StringifyEvent(got.result.events[i]) = GotText.events[i]

\* getCache returned absent for an entry that parses, has two events and has
\* isComplete false
C6_Witness ==
    /\ got # NoCall
    /\ IsNull(got.result)
    /\ ~IsNull(GotText)
    /\ GotText.json = "object"
    /\ "isComplete" \in DOMAIN GotText
    /\ ~GotText.isComplete
    /\ "events" \in DOMAIN GotText
    /\ Len(GotText.events) = 2

----------------------------------------------------------------------------
(* Specification SpecReplay: one replayCache call on an arbitrary recording *)

ReplayDelays == {0, 10, 350, 1200, 100000}

ReplayMessages ==
    { [type |-> "session_started", request_id |-> "r1"],
      [type |-> "tool_called", agent_id |-> "r1", tool_name |-> "query"],
      [type |-> "tool_result", agent_id |-> "r1", row_count |-> "5"],
      [type |-> "session_complete", duration_ms |-> "7"] }

\* the events of a stored recording: well-formed ones, and one whose data is
\* the JSON null (getCache does not look inside the events)
ReplayEvents ==
    { [type |-> m.type, data |-> m, timestamp |-> 0, delay |-> d] :
        m \in ReplayMessages, d \in ReplayDelays }
    \cup { [type |-> "agent_spawned", data |-> Null, timestamp |-> 0, delay |-> 10] }

SeqsUpTo(S, n) == UNION { [1..k -> S] : k \in 0..n }

InitReplay ==
    /\ now = 0
    /\ localStorage = << >>
    /\ recorderRef = Null
    /\ got = NoCall
    /\ op = "init"
    /\ created = 0
    /\ firstCache = Null
    /\ recorded = << >>
    /\ store = initialState
    /\ \E es \in SeqsUpTo(ReplayEvents, MaxEvents) : replays = <<NewReplay(es)>>
    /\ isReplaying = TRUE
    /\ cacheEnabled = TRUE
    /\ isConnected = TRUE
    /\ sent = << >>
    /\ inbox = << >>
    /\ started = 0
    /\ lastQuery = << >>
    /\ owner = 0
    /\ liveStore = Null
    /\ liveEvents = << >>
    /\ call = NoStoreCall
    /\ heap = << >>
    /\ arrived = << >>
    /\ tabs = << >>
    /\ overlapped = FALSE

\* replayCache(cache) is entered and runs to its first suspension
ReplayStart(k) ==
    /\ replays[k].pc = "start"
    /\ LET r == ReplayBegin(replays[k], store, now)
       IN  /\ replays' = [replays EXCEPT ![k] = r.rep]
           /\ store' = r.store
           /\ isReplaying' = IF Settled(r.rep) THEN FALSE ELSE isReplaying
    /\ op' = "replayStart"
    /\ UNCHANGED <<now, localStorage>>
    /\ UNCHANGED recVars
    /\ UNCHANGED sessVars
    /\ UNCHANGED auxVars

\* the pending setTimeout of replay k fires
ReplayTimer(k) ==
    /\ replays[k].pc = "sleep"
    /\ LET r == ReplayIteration(replays[k], store, now)
       IN  /\ replays' = [replays EXCEPT ![k] = r.rep]
           /\ store' = r.store
           /\ isReplaying' = IF Settled(r.rep) THEN FALSE ELSE isReplaying
    /\ op' = "replayTimer"
    /\ UNCHANGED <<now, localStorage>>
    /\ UNCHANGED recVars
    /\ UNCHANGED sessVars
    /\ UNCHANGED auxVars

NextReplay ==
    \/ \E k \in DOMAIN replays : ReplayStart(k)
    \/ \E k \in DOMAIN replays : ReplayTimer(k)

SpecReplay == InitReplay /\ [][NextReplay]_vars

RECURSIVE ApplyEvents(_, _, _)
\* the store after processEvent has been applied to each event of `events` in order
ApplyEvents(st, events, t) ==
    IF events = << >> THEN st
    ELSE ApplyEvents(processEvent(st, Head(events), t), Tail(events), t)

\* C2: replay fidelity.  At every point of a replay the processEvent calls made
\* so far are the events before the current position, one call per event, in
\* stored order, each with the stored type and data; the store is the result
\* of applying exactly those events in order; and when the replay has
\* resolved every event has been applied.
C2_ReplayFidelity ==
    \A k \in DOMAIN replays :
        LET rep == replays[k]
            n   == Len(rep.applied)
        IN  /\ n <= Len(rep.events)
            /\ \A j \in 1..n :
                  /\ rep.applied[j].index = j
                  /\ rep.applied[j].type = rep.events[j].type
                  /\ rep.applied[j].data = rep.events[j].data
            /\ rep.pc = "done" => n = Len(rep.events)
            /\ rep.pc = "sleep" => n < Len(rep.events)
            /\ rep.pc # "start" =>
                  store = ApplyEvents(setStartTime(initialState, now),
                                      SubSeq(rep.events, 1, n), now)

\* a replay of two different events has resolved
C2_Witness ==
    \E k \in DOMAIN replays :
        /\ replays[k].pc = "done"
        /\ Len(replays[k].events) = 2
        /\ replays[k].events[1].type = "session_started"
        /\ replays[k].events[2].type = "session_complete"
        /\ Len(replays[k].applied) = 2
        /\ store.sessionStatus = "complete"

\* the wait `ms` is round(delay * 0.15) clamped to [50, 800]: r is the integer
\* with r - 1/2 <= 0.15 * delay < r + 1/2
IsScaledWait(ms, delay) ==
    \E r \in { (15 * delay) \div 100, (15 * delay) \div 100 + 1 } :
        /\ 100 * r - 50 <= 15 * delay
        /\ 15 * delay < 100 * r + 50
        /\ ms = IF r < 50 THEN 50 ELSE IF r > 800 THEN 800 ELSE r

\* C8: delay scaling.  Every event after the first is applied after exactly one
\* wait of clamp(round(delay * 0.15), 50, 800) ms, which lies in [50, 800]
\* (1200 gives 180, 10 gives 50, 100000 gives 800); the first event is applied
\* with no wait.
C8_DelayScaling ==
    \A k \in DOMAIN replays :
        LET rep == replays[k]
        IN  /\ \A w \in DOMAIN rep.waits :
                  LET d == rep.events[rep.waits[w].index].delay
                      ms == rep.waits[w].ms
                  IN  /\ rep.waits[w].index = w + 1
                      /\ ms >= 50 /\ ms <= 800
                      /\ IsScaledWait(ms, d)
                      /\ d = 1200 => ms = 180
                      /\ d = 10 => ms = 50
                      /\ d = 100000 => ms = 800
            /\ \A j \in DOMAIN rep.applied :
                  Len(rep.waits) >= j - 1
            /\ rep.pc = "sleep" =>
                  /\ Len(rep.waits) = Len(rep.applied)
                  /\ rep.timer = rep.waits[Len(rep.waits)].ms
            /\ rep.pc = "done" => Len(rep.waits) = Max(Len(rep.applied) - 1, 0)

\* a replay is sleeping 50 ms before its second event, whose stored delay is 10
C8_Witness ==
    \E k \in DOMAIN replays :
        /\ replays[k].pc = "sleep"
        /\ Len(replays[k].applied) = 1
        /\ replays[k].events[2].delay = 10
        /\ replays[k].timer = 50

----------------------------------------------------------------------------
(* The live-session controller: useSafeSFWebSocket and ChatInput.handleSubmit *)

\* a recordableTypes list without the two terminal types
recordableTypesNoTerminal ==
    { "session_started", "agent_spawned", "tool_called", "tool_result",
      "data_received", "agent_complete", "session_error" }

\* the recordableTypes array literal of handleEvent
recordableTypes ==
    { "session_started", "agent_spawned", "tool_called", "tool_result",
      "data_received", "agent_complete", "session_complete", "session_error",
      "final_result" }

TerminalTypes == { "session_complete", "final_result" }

\* sendMessage: the message goes out only when the socket is open
sendMessage(out, connected, message) ==
    IF connected THEN Append(out, message) ELSE out

\* startSession that also attaches a recorder on a cache hit
StartSessionRecordsOnHit(q) ==
    /\ started < MaxSessions
    /\ Trim(q) # << >>
    /\ store.sessionStatus # "running"
    /\ isConnected
    /\ started' = started + 1
    /\ lastQuery' = q
    /\ op' = "startSession"
    /\ LET cached == IF cacheEnabled THEN getCache(localStorage, q) ELSE Null
       IN  IF ~IsNull(cached)
           THEN LET r == ReplayBegin(NewReplay(cached.events), initialState, now)
                IN  /\ replays' = Append(replays, r.rep)
                    /\ store' = r.store
                    /\ isReplaying' = ~Settled(r.rep)
                    /\ recorderRef' = createRecorder(q, now)
                    /\ owner' = started + 1
                    /\ arrived' = << >>
                    /\ UNCHANGED sent
           ELSE /\ store' = initialState
                /\ recorderRef' = IF cacheEnabled THEN createRecorder(q, now)
                                  ELSE recorderRef
                /\ owner' = IF cacheEnabled THEN started + 1 ELSE owner
                /\ arrived' = IF cacheEnabled THEN << >> ELSE arrived
                /\ sent' = sendMessage(sent, isConnected,
                                       [action |-> "query", query |-> q])
                /\ UNCHANGED <<replays, isReplaying>>
    /\ UNCHANGED <<now, localStorage, got, created, firstCache, recorded>>
    /\ UNCHANGED <<cacheEnabled, isConnected, inbox, liveStore, liveEvents>>
    /\ UNCHANGED <<call, heap, tabs, overlapped>>

\* ChatInput.handleSubmit, when its guard lets it through, calling
\* startSession(q): reset the store, then replay on a cache hit, or attach a
\* recorder (cache enabled) and send the query.  On a hit the call runs
\* replayCache up to its first suspension.
StartSession(q) ==
    /\ started < MaxSessions
    /\ Trim(q) # << >>
    /\ store.sessionStatus # "running"
    /\ isConnected
    /\ started' = started + 1
    /\ lastQuery' = q
    /\ op' = "startSession"
    /\ LET cached == IF cacheEnabled THEN getCache(localStorage, q) ELSE Null
       IN  IF ~IsNull(cached)
           THEN LET r == ReplayBegin(NewReplay(cached.events), initialState, now)
                IN  /\ replays' = Append(replays, r.rep)
                    /\ store' = r.store
                    /\ isReplaying' = ~Settled(r.rep)
                    /\ UNCHANGED <<recorderRef, owner, sent, arrived>>
           ELSE /\ store' = initialState
                /\ recorderRef' = IF cacheEnabled THEN createRecorder(q, now)
                                  ELSE recorderRef
                /\ owner' = IF cacheEnabled THEN started + 1 ELSE owner
                /\ arrived' = IF cacheEnabled THEN << >> ELSE arrived
                /\ sent' = sendMessage(sent, isConnected,
                                       [action |-> "query", query |-> q])
                /\ UNCHANGED <<replays, isReplaying>>
    /\ UNCHANGED <<now, localStorage, got, created, firstCache, recorded>>
    /\ UNCHANGED <<cacheEnabled, isConnected, inbox, liveStore, liveEvents>>
    /\ UNCHANGED <<call, heap, tabs, overlapped>>

\* handleEvent without `recorderRef.current = null` after finalizeRecording
HandleEventKeepsRef ==
    /\ isConnected
    /\ inbox # << >>
    /\ LET message == Head(inbox)
           active  == ~IsNull(recorderRef) /\ ~recorderRef.isFinalized
           rec     == IF active /\ message.type \in recordableTypes
                      THEN recordEvent(recorderRef, message.type, message, now)
                      ELSE recorderRef
           fin     == /\ message.type \in TerminalTypes
                      /\ ~IsNull(rec)
                      /\ ~rec.isFinalized
       IN  /\ inbox' = Tail(inbox)
           /\ store' = handleEventStore(store, message, now)
           /\ recorderRef' = IF fin THEN [rec EXCEPT !.isFinalized = TRUE] ELSE rec
           /\ owner' = IF fin THEN 0 ELSE owner
           /\ localStorage' = IF fin THEN saveCache(localStorage, finalCache(rec, now))
                              ELSE localStorage
           /\ liveStore' = IF fin THEN store' ELSE liveStore
           /\ liveEvents' = IF fin THEN rec.events ELSE liveEvents
           /\ arrived' = IF fin THEN << >>
                          ELSE IF ~IsNull(recorderRef) /\ message.type \in CacheEventTypes
                          THEN Append(arrived, message)
                          ELSE arrived
    /\ op' = "handleEvent"
    /\ UNCHANGED <<now, got, created, firstCache, recorded>>
    /\ UNCHANGED <<replays, isReplaying>>
    /\ UNCHANGED <<cacheEnabled, isConnected, sent, started, lastQuery>>
    /\ UNCHANGED <<call, heap, tabs, overlapped>>

\* ws.onmessage -> handleEvent(message): record the event if a recorder is
\* active, apply it to the store, and on session_complete / final_result
\* finalize the recorder and drop the reference
HandleEvent ==
    /\ isConnected
    /\ inbox # << >>
    /\ LET message == Head(inbox)
           active  == ~IsNull(recorderRef) /\ ~recorderRef.isFinalized
           rec     == IF active /\ message.type \in recordableTypes
                      THEN recordEvent(recorderRef, message.type, message, now)
                      ELSE recorderRef
           fin     == /\ message.type \in TerminalTypes
                      /\ ~IsNull(rec)
                      /\ ~rec.isFinalized
       IN  /\ inbox' = Tail(inbox)
           /\ store' = handleEventStore(store, message, now)
           /\ recorderRef' = IF fin THEN Null ELSE rec
           /\ owner' = IF fin THEN 0 ELSE owner
           /\ localStorage' = IF fin THEN saveCache(localStorage, finalCache(rec, now))
                              ELSE localStorage
           /\ liveStore' = IF fin THEN store' ELSE liveStore
           /\ liveEvents' = IF fin THEN rec.events ELSE liveEvents
           /\ arrived' = IF fin THEN << >>
                          ELSE IF ~IsNull(recorderRef) /\ message.type \in CacheEventTypes
                          THEN Append(arrived, message)
                          ELSE arrived
    /\ op' = "handleEvent"
    /\ UNCHANGED <<now, got, created, firstCache, recorded>>
    /\ UNCHANGED <<replays, isReplaying>>
    /\ UNCHANGED <<cacheEnabled, isConnected, sent, started, lastQuery>>
    /\ UNCHANGED <<call, heap, tabs, overlapped>>

\* ws.onopen
WsOpen ==
    /\ ~isConnected
    /\ isConnected' = TRUE
    /\ op' = "wsOpen"
    /\ UNCHANGED <<now, localStorage>>
    /\ UNCHANGED recVars
    /\ UNCHANGED appVars
    /\ UNCHANGED <<cacheEnabled, sent, inbox, started, lastQuery, owner,
                   liveStore, liveEvents>>
    /\ UNCHANGED auxVars

\* ws.onclose: the messages still in flight are lost with the connection
WsClose ==
    /\ isConnected
    /\ isConnected' = FALSE
    /\ inbox' = << >>
    /\ op' = "wsClose"
    /\ UNCHANGED <<now, localStorage>>
    /\ UNCHANGED recVars
    /\ UNCHANGED appVars
    /\ UNCHANGED <<cacheEnabled, sent, started, lastQuery, owner,
                   liveStore, liveEvents>>
    /\ UNCHANGED auxVars

----------------------------------------------------------------------------
(* Specification SpecSession: any interleaving of submitted queries, inbound *)
(* messages, replay timers and connection changes                           *)

\* the prompts the user submits: "A " and "b"
SessionPrompts == { <<65, 32>>, <<98>> }

SessionMessages ==
    { [type |-> "session_started", request_id |-> "r1"],
      [type |-> "agent_spawned", agent_id |-> "a1", agent_type |-> "data-agent"],
      [type |-> "session_complete", duration_ms |-> "7"],
      [type |-> "final_result", summary |-> "ok"],
      [type |-> "session_error", error |-> "boom"],
      [type |-> "pong"] }

InitSession ==
    /\ now = 0
    /\ localStorage = << >>
    /\ recorderRef = Null
    /\ got = NoCall
    /\ op = "init"
    /\ created = 0
    /\ firstCache = Null
    /\ recorded = << >>
    /\ store = initialState
    /\ replays = << >>
    /\ isReplaying = FALSE
    /\ cacheEnabled \in BOOLEAN
    /\ isConnected = FALSE
    /\ sent = << >>
    /\ inbox \in SeqsUpTo(SessionMessages, MaxScript)
    /\ started = 0
    /\ lastQuery = << >>
    /\ owner = 0
    /\ liveStore = Null
    /\ liveEvents = << >>
    /\ call = NoStoreCall
    /\ heap = << >>
    /\ arrived = << >>
    /\ tabs = << >>
    /\ overlapped = FALSE

NextSession ==
    \/ \E q \in SessionPrompts : StartSession(q)
    \/ HandleEvent
    \/ \E k \in DOMAIN replays : ReplayTimer(k)
    \/ WsOpen
    \/ WsClose

SpecSession == InitSession /\ [][NextSession]_vars

\* C7: an unfinalized recorder is abandoned on reset.  Whenever the controller
\* refers to a recorder, that recorder was created by the latest startSession
\* call: no startSession leaves the recorder of an earlier session referenced
\* (where later events would be appended to it and a terminal event would save
\* it).
C7_RecorderAbandonedOnReset ==
    ~IsNull(recorderRef) => owner = started

\* C10: cache hit versus miss in startSession.  With the cache enabled, a call
\* for a query with a valid stored recording starts a replay of that recording
\* (its first event applied at once), sends nothing and leaves recorderRef as
\* it was; a call for any other query attaches a fresh recorder for the query
\* and sends the query.  With the cache disabled the query is sent, no
\* recorder is ever attached and nothing is ever saved.
C10_HitOrMiss ==
    /\ [][(op' = "startSession" /\ started' = started + 1) =>
            LET q     == lastQuery'
                text  == getItem(localStorage, CacheKey(hashPrompt(Normalize(q))))
                hit   == cacheEnabled /\ ValidText(text)
                query == [action |-> "query", query |-> q]
                last  == replays'[Len(replays')]
            IN  IF hit
                THEN /\ sent' = sent
                     /\ recorderRef' = recorderRef
                     /\ localStorage' = localStorage
                     /\ Len(replays') = Len(replays) + 1
                     /\ last.events = ParseCache(text).events
                     /\ Len(last.applied) = 1
                ELSE IF cacheEnabled
                THEN /\ sent' = Append(sent, query)
                     /\ replays' = replays
                     /\ ~IsNull(recorderRef')
                     /\ recorderRef'.prompt = q
                     /\ recorderRef'.promptHash = hashPrompt(Normalize(q))
                     /\ recorderRef'.events = << >>
                     /\ ~recorderRef'.isFinalized
                ELSE /\ sent' = Append(sent, query)
                     /\ replays' = replays
                     /\ IsNull(recorderRef')]_vars
    /\ [](~cacheEnabled => (IsNull(recorderRef) /\ localStorage = << >>))

\* a startSession call has just hit the cache, after an earlier call missed,
\* sent its query and had its session recorded
C10_Witness ==
    /\ op = "startSession"
    /\ cacheEnabled
    /\ started = 2
    /\ Len(sent) = 1
    /\ Len(replays) = 1
    /\ Len(replays[1].applied) = 1
    /\ IsNull(recorderRef)

----------------------------------------------------------------------------
(* Specification SpecEquiv: one query handled live, recorded, then replayed *)

EquivPrompt == <<98>>

TaxonomyMessages ==
    { [type |-> "session_started", request_id |-> "r1"],
      [type |-> "agent_spawned", agent_id |-> "a1", agent_type |-> "data-agent"],
      [type |-> "tool_called", agent_id |-> "a1", tool_name |-> "query"],
      [type |-> "tool_result", agent_id |-> "a1", row_count |-> "5",
       tool_result |-> "rows"],
      [type |-> "data_received", row_count |-> "5"],
      [type |-> "agent_complete", agent_id |-> "a1", status |-> "completed"],
      [type |-> "agent_complete", agent_id |-> "a1", status |-> "failed"],
      [type |-> "session_error", error |-> "boom"],
      [type |-> "session_complete", duration_ms |-> "7"],
      [type |-> "final_result", summary |-> "ok"] }

\* sequences of taxonomy events ended by their only session_complete / final_result
EquivScripts ==
    { Append(body, t) :
        body \in SeqsUpTo({ m \in TaxonomyMessages : m.type \notin TerminalTypes },
                          MaxScript - 1),
        t \in { m \in TaxonomyMessages : m.type \in TerminalTypes } }

InitEquiv ==
    /\ now = 0
    /\ localStorage = << >>
    /\ recorderRef = Null
    /\ got = NoCall
    /\ op = "init"
    /\ created = 0
    /\ firstCache = Null
    /\ recorded = << >>
    /\ store = initialState
    /\ replays = << >>
    /\ isReplaying = FALSE
    /\ cacheEnabled = TRUE
    /\ isConnected = TRUE
    /\ sent = << >>
    /\ inbox \in EquivScripts
    /\ started = 0
    /\ lastQuery = << >>
    /\ owner = 0
    /\ liveStore = Null
    /\ liveEvents = << >>
    /\ call = NoStoreCall
    /\ heap = << >>
    /\ arrived = << >>
    /\ tabs = << >>
    /\ overlapped = FALSE

NextEquiv ==
    \/ StartSession(EquivPrompt)
    \/ HandleEvent
    \/ \E k \in DOMAIN replays : ReplayTimer(k)

SpecEquiv == InitEquiv /\ [][NextEquiv]_vars

\* what a consumer sees of the store apart from timing: the session status,
\* the agents with their statuses, and their tool calls with status, row
\* count and result
View(st) ==
    [sessionStatus |-> st.sessionStatus,
     agents |->
        [i \in DOMAIN st.agents |->
            [id     |-> st.agents[i].id,
             type   |-> st.agents[i].type,
             status |-> st.agents[i].status,
             toolCalls |->
                [j \in DOMAIN st.agents[i].toolCalls |->
                    [name     |-> st.agents[i].toolCalls[j].name,
                     status   |-> st.agents[i].toolCalls[j].status,
                     rowCount |-> Field(st.agents[i].toolCalls[j], "rowCount"),
                     result   |-> Field(st.agents[i].toolCalls[j], "result")]]]]]

\* replay k has resolved, it replayed the recording the live session produced,
\* and nothing but that replay has touched the store since its reset
ReplayedLiveRecording(k) ==
    /\ ~IsNull(liveStore)
    /\ replays[k].pc = "done"
    /\ replays[k].events = liveEvents
    /\ store = ApplyEvents(setStartTime(initialState, now), liveEvents, now)

\* C3: live/replay equivalence.  When the recording of a live session that
\* ended with a terminal event has been replayed from a reset store, the
\* store shows the same session status, agents, agent statuses and tool calls
\* (status, row count, result) as the live handling left.
C3_LiveReplayEquivalence ==
    \A k \in DOMAIN replays :
        ReplayedLiveRecording(k) => View(store) = View(liveStore)

----------------------------------------------------------------------------
(* Specification SpecStore: the cache-store operations called directly, in  *)
(* any order, with storage faults, on a storage that other code of the      *)
(* origin may have written to                                               *)

MaxFault == 4

\* the storage call that throws within an operation; 0: none does
Faults == 0..MaxFault

StoreEvent1 == ParseEvent(GateEvent1)

StoreEvent2 == ParseEvent(GateEvent2)

\* recordings handed to saveCache: for "A " and "b", with no, one or two events
StoreCaches ==
    { [promptHash    |-> hashPrompt(Normalize(p)),
       prompt        |-> p,
       events        |-> es,
       recordedAt    |-> 0,
       totalDuration |-> 0,
       isComplete    |-> TRUE] :
         p \in RecPrompts,
         es \in { << >>, <<StoreEvent1>>, <<StoreEvent1, StoreEvent2>> } }

\* the hash under which both "a" and "A " are stored
HashA == hashPrompt(Normalize(<<97>>))

\* what localStorage holds at the start: nothing; an indexed entry that is
\* not JSON or is the JSON null; an index that is not JSON
StoreInitial ==
    { << >>,
      (CacheKey(HashA) :> [json |-> "corrupt"])
          @@ (IndexKey :> StringifyIndex(<<HashA>>)),
      (CacheKey(HashA) :> [json |-> "null"])
          @@ (IndexKey :> StringifyIndex(<<HashA>>)),
      (IndexKey :> [json |-> "corrupt"]) }

InitStore ==
    /\ now = 0
    /\ localStorage \in StoreInitial
    /\ recorderRef = Null
    /\ got = NoCall
    /\ op = "init"
    /\ created = 0
    /\ firstCache = Null
    /\ recorded = << >>
    /\ store = initialState
    /\ replays = << >>
    /\ isReplaying = FALSE
    /\ cacheEnabled \in BOOLEAN
    /\ isConnected = TRUE
    /\ sent = << >>
    /\ inbox = << >>
    /\ started = 0
    /\ lastQuery = << >>
    /\ owner = 0
    /\ liveStore = Null
    /\ liveEvents = << >>
    /\ call = NoStoreCall
    /\ heap = << >>
    /\ arrived = << >>
    /\ tabs = << >>
    /\ overlapped = FALSE

\* the record of a call: what it was given and what it came to
StoreCall(name, arg, fault, o) ==
    [name   |-> name,
     arg    |-> arg,
     fault  |-> fault,
     before |-> localStorage,
     result |-> o.result,
     caught |-> o.caught,
     threw  |-> o.threw]

\* the variables no cache-store operation touches
StoreFrame ==
    /\ UNCHANGED <<now, recorderRef, got, created, firstCache, recorded>>
    /\ UNCHANGED appVars
    /\ UNCHANGED sessVars
    /\ UNCHANGED <<heap, arrived, tabs, overlapped>>

StoreGet(q, f) ==
    /\ LET o == getCacheTry(localStorage, q, f)
       IN  /\ localStorage' = o.ls
           /\ call' = StoreCall("getCache", q, f, o)
    /\ op' = "getCache"
    /\ StoreFrame

StoreSave(cache, f) ==
    /\ LET o == saveCacheTry(localStorage, cache, f)
       IN  /\ localStorage' = o.ls
           /\ call' = StoreCall("saveCache", cache, f, o)
    /\ op' = "saveCache"
    /\ StoreFrame

StoreClear(f) ==
    /\ LET o == clearAllCacheTry(localStorage, f)
       IN  /\ localStorage' = o.ls
           /\ call' = StoreCall("clearAllCache", Null, f, o)
    /\ op' = "clearAllCache"
    /\ StoreFrame

StoreList(f) ==
    /\ LET o == listCachedPromptsTry(localStorage, f)
       IN  /\ localStorage' = o.ls
           /\ call' = StoreCall("listCachedPrompts", Null, f, o)
    /\ op' = "listCachedPrompts"
    /\ StoreFrame

\* finalizeRecording on a recorder for p that has recorded one event
StoreFinalize(p, f) ==
    /\ LET r == recordEvent(createRecorder(p, now), "session_started",
                            [request_id |-> "r1"], now)
           o == finalizeRecordingTry(r, localStorage, now, f)
       IN  /\ localStorage' = o.ls
           /\ call' = StoreCall("finalizeRecording", r, f, o)
    /\ op' = "finalizeRecording"
    /\ StoreFrame

NextStore ==
    \/ \E q \in Prompts, f \in Faults : StoreGet(q, f)
    \/ \E cache \in StoreCaches, f \in Faults : StoreSave(cache, f)
    \/ \E f \in Faults : StoreClear(f)
    \/ \E f \in Faults : StoreList(f)
    \/ \E p \in RecPrompts, f \in Faults : StoreFinalize(p, f)

SpecStore == InitStore /\ [][NextStore]_vars

\* the index parsed from storage `ls` (empty when there is none)
IndexOf(ls) ==
    IF IsNull(getItem(ls, IndexKey)) THEN << >>
    ELSE ParseIndex(getItem(ls, IndexKey))

\* the index text of `ls` is missing or parses to an array
IndexReadable(ls) ==
    IsNull(getItem(ls, IndexKey)) \/ IsArrayText(getItem(ls, IndexKey))

\* C11: the disabled cache has no effect.  When isCacheEnabled() is false,
\* getCache returns absent whatever is stored and saveCache leaves the
\* storage (entries and index) as it was.
C11_DisabledNoEffect ==
    ~cacheEnabled =>
        /\ call.name = "getCache" => IsNull(call.result)
        /\ call.name = "saveCache" => localStorage = call.before

\* C12: storage faults never propagate.  Whatever storage call or parse fails
\* inside getCache, saveCache, clearAllCache, listCachedPrompts or
\* finalizeRecording, no exception reaches the caller, and the operation
\* returns its safe default: absent from getCache, the empty list from
\* listCachedPrompts, nothing from saveCache and clearAllCache, and the
\* recording from finalizeRecording.
C12_FaultsNeverPropagate ==
    call.name # "none" =>
        /\ ~call.threw
        /\ (call.caught /\ call.name = "getCache") => IsNull(call.result)
        /\ (call.caught /\ call.name = "listCachedPrompts") => call.result = << >>
        /\ call.name \in {"saveCache", "clearAllCache"} => IsNull(call.result)
        /\ call.name = "finalizeRecording" =>
              /\ call.result.prompt = call.arg.prompt
              /\ call.result.promptHash = call.arg.promptHash
              /\ call.result.events = call.arg.events
              /\ call.result.isComplete

\* saveCache wrote the entry, then its write of the index threw, and the call
\* returned normally
C12_Witness ==
    /\ call.name = "saveCache"
    /\ call.fault = 3
    /\ call.caught
    /\ ~call.threw
    /\ CacheKey(call.arg.promptHash) \in DOMAIN localStorage
    /\ ~Includes(IndexOf(localStorage), call.arg.promptHash)

\* C13: saveCache overwrites.  A readable index never lists a hash twice;
\* after a saveCache call that met no fault the entry under the hash is the
\* recording just saved, the index lists the hash once, and getCache for the
\* recording's prompt returns that recording if it is valid (absent if it has
\* no events); and no saveCache call changes an entry stored under another
\* hash.
C13_SaveOverwrites ==
    /\ IndexReadable(localStorage) =>
          \A i, j \in DOMAIN IndexOf(localStorage) :
              IndexOf(localStorage)[i] = IndexOf(localStorage)[j] => i = j
    /\ call.name = "saveCache" =>
          LET key == CacheKey(call.arg.promptHash)
          IN  /\ \A k \in DOMAIN call.before \ {key, IndexKey} :
                    k \in DOMAIN localStorage /\ localStorage[k] = call.before[k]
              /\ DOMAIN localStorage \subseteq DOMAIN call.before \cup {key, IndexKey}
              /\ ~call.caught =>
                    /\ getItem(localStorage, key) = StringifyCache(call.arg)
                    /\ CountOf(IndexOf(localStorage), call.arg.promptHash) = 1
                    /\ getCache(localStorage, call.arg.prompt) =
                          IF call.arg.events # << >> THEN call.arg ELSE Null

\* a recording for "b" has just replaced another recording stored under the
\* same hash, while an entry under another hash is stored and indexed too
C13_Witness ==
    /\ call.name = "saveCache"
    /\ ~call.caught
    /\ call.arg.prompt = <<98>>
    /\ CacheKey(call.arg.promptHash) \in DOMAIN call.before
    /\ call.before[CacheKey(call.arg.promptHash)] # StringifyCache(call.arg)
    /\ Len(IndexOf(localStorage)) = 2
    /\ ~IsNull(getCache(localStorage, <<65, 32>>))

\* C14: clearAllCache.  After a clearAllCache call that met no fault, no entry
\* that the index listed is stored, the index is gone, getCache is absent for
\* every prompt whose hash was listed and listCachedPrompts is empty; and the
\* call returns normally also when a listed entry was missing already.
C14_ClearAllRemoves ==
    call.name = "clearAllCache" =>
        /\ ~call.threw
        /\ ~call.caught =>
              LET index == IndexOf(call.before)
              IN  /\ \A i \in DOMAIN index :
                        CacheKey(index[i]) \notin DOMAIN localStorage
                  /\ IndexKey \notin DOMAIN localStorage
                  /\ \A p \in Prompts :
                        Includes(index, hashPrompt(Normalize(p))) =>
                            IsNull(getCache(localStorage, p))
                  /\ listCachedPromptsTry(localStorage, 0).result = << >>

\* clearAllCache has run without fault on an index of two hashes, one with
\* its entry stored and one with its entry missing
C14_Witness ==
    /\ call.name = "clearAllCache"
    /\ ~call.caught
    /\ Len(IndexOf(call.before)) = 2
    /\ \E i \in DOMAIN IndexOf(call.before) :
          CacheKey(IndexOf(call.before)[i]) \notin DOMAIN call.before
    /\ \E i \in DOMAIN IndexOf(call.before) :
          CacheKey(IndexOf(call.before)[i]) \in DOMAIN call.before

\* the entry stored under `hash` loads: it is there and parses to an object
EntryLoads(ls, hash) ==
    /\ ~IsNull(getItem(ls, CacheKey(hash)))
    /\ IsObjectText(getItem(ls, CacheKey(hash)))

\* C15: listCachedPrompts.  With a readable index and no storage call
\* failing, the result is the prompts of the indexed entries that load, in
\* index order, without the entries that are missing or do not parse, and it
\* holds no empty string.
C15_ListSkipsUnloadable ==
    (call.name = "listCachedPrompts" /\ call.fault = 0 /\ IndexReadable(call.before)) =>
        /\ call.result =
              FilterNonEmpty([i \in DOMAIN IndexOf(call.before) |->
                  IF EntryLoads(call.before, IndexOf(call.before)[i])
                  THEN getItem(call.before, CacheKey(IndexOf(call.before)[i])).prompt
                  ELSE << >>])
        /\ \A i \in DOMAIN call.result : call.result[i] # << >>

----------------------------------------------------------------------------
(* Specification SpecAlias: the recorder with its events array as an object *)
(* of the heap.  `recorder.events` is a reference: the recorder record      *)
(* holds the address of the array and `heap` holds the array's contents, so *)
(* that two objects holding the same address share one array.               *)

\* a reference to the array at address a
Ref(a) == [addr |-> a]

\* the contents of the array a reference points to
Deref(ref) == heap[ref.addr]

\* the recorder with the contents of its events array in place of the reference
Load(recorder) == [recorder EXCEPT !.events = Deref(recorder.events)]

InitAlias ==
    /\ now = 0
    /\ localStorage = << >>
    /\ recorderRef = Null
    /\ got = NoCall
    /\ op = "init"
    /\ created = 0
    /\ firstCache = Null
    /\ recorded = << >>
    /\ store = initialState
    /\ replays = << >>
    /\ isReplaying = FALSE
    /\ cacheEnabled = TRUE
    /\ isConnected = TRUE
    /\ sent = << >>
    /\ inbox = << >>
    /\ started = 0
    /\ lastQuery = << >>
    /\ owner = 0
    /\ liveStore = Null
    /\ liveEvents = << >>
    /\ call = NoStoreCall
    /\ heap = << >>
    /\ arrived = << >>
    /\ tabs = << >>
    /\ overlapped = FALSE

\* the variables the recorder operations do not touch
AliasFrame ==
    /\ UNCHANGED <<got, recorded, arrived, tabs, overlapped>>
    /\ UNCHANGED appVars
    /\ UNCHANGED sessVars

AliasTick ==
    /\ now < MaxTime
    /\ now' = now + 1
    /\ op' = "tick"
    /\ UNCHANGED <<localStorage, recorderRef, created, firstCache, call, heap>>
    /\ AliasFrame

\* createRecorder(p): `events: []` allocates a new array
AliasCreate(p) ==
    /\ created < MaxRecorders
    /\ created' = created + 1
    /\ heap' = (created + 1) :> << >>
    /\ recorderRef' = [createRecorder(p, now) EXCEPT !.events = Ref(created + 1)]
    /\ firstCache' = Null
    /\ call' = NoStoreCall
    /\ op' = "createRecorder"
    /\ UNCHANGED <<now, localStorage>>
    /\ AliasFrame

\* recordEvent: `recorder.events.push(event)` changes the array in place
AliasRecord(in) ==
    /\ ~IsNull(recorderRef)
    /\ Len(Deref(recorderRef.events)) < MaxEvents
    /\ LET r == recordEvent(Load(recorderRef), in.type, in.data, now)
       IN  /\ heap' = [heap EXCEPT ![recorderRef.events.addr] = r.events]
           /\ recorderRef' = [r EXCEPT !.events = recorderRef.events]
    /\ op' = "recordEvent"
    /\ UNCHANGED <<now, localStorage, created, firstCache, call>>
    /\ AliasFrame

\* finalizeRecording: the cache object is built from the recorder's fields
\* (`events: recorder.events` copies the reference), serialized by saveCache
\* and returned.  firstCache keeps the returned recording as it read when it
\* was returned.
AliasFinalize ==
    /\ ~IsNull(recorderRef)
    /\ IsNull(firstCache)
    /\ LET cache == finalCache(recorderRef, now)
       IN  /\ localStorage' = saveCache(localStorage,
                                        [cache EXCEPT !.events = Deref(cache.events)])
           /\ call' = [name |-> "finalizeRecording", result |-> cache]
           /\ firstCache' = [cache EXCEPT !.events = Deref(cache.events)]
    /\ recorderRef' = [recorderRef EXCEPT !.isFinalized = TRUE]
    /\ op' = "finalizeRecording"
    /\ UNCHANGED <<now, created, heap>>
    /\ AliasFrame

\* code that holds the recorder changes recorder.events itself after the
\* recording was returned (recordEvent refuses by then)
AliasPush(in) ==
    /\ ~IsNull(recorderRef)
    /\ recorderRef.isFinalized
    /\ Len(Deref(recorderRef.events)) <= MaxEvents
    /\ heap' = [heap EXCEPT ![recorderRef.events.addr] =
                  Append(@, [type |-> in.type, data |-> in.data,
                             timestamp |-> now, delay |-> 0])]
    /\ op' = "push"
    /\ UNCHANGED <<now, localStorage, recorderRef, created, firstCache, call>>
    /\ AliasFrame

NextAlias ==
    \/ AliasTick
    \/ \E p \in RecPrompts : AliasCreate(p)
    \/ \E in \in RecInputs : AliasRecord(in)
    \/ AliasFinalize
    \/ \E in \in RecInputs : AliasPush(in)

SpecAlias == InitAlias /\ [][NextAlias]_vars

\* C16: the returned recording is a snapshot.  The events of the recording
\* that finalizeRecording returned read, at any later time, as they read when
\* it was returned, whatever is done to recorder.events afterwards.
C16_ReturnedSnapshot ==
    call.name = "finalizeRecording" =>
        Deref(call.result.events) = firstCache.events

----------------------------------------------------------------------------
(* Live capture, under SpecSession *)

\* this step is ws.onmessage handing the first message in flight to handleEvent
HandlesMessage == inbox # << >> /\ inbox' = Tail(inbox) /\ isConnected'

\* the messages that the events of a recording were made from
DataOf(events) == [i \in DOMAIN events |-> events[i].data]

\* C17: live capture order.  While a recorder is attached and not finalized
\* its events are the taxonomy messages that arrived since it was created, in
\* arrival order, none missing; the callback that handles a taxonomy message
\* appends it and applies it to the store in one step; a recording is
\* finalized with exactly the messages that arrived, the terminal one last;
\* and the events of a recorder only ever grow by one event at the end.
C17_LiveCaptureOrder ==
    /\ []((~IsNull(recorderRef) /\ ~recorderRef.isFinalized) =>
            /\ DataOf(recorderRef.events) = arrived
            /\ \A i \in DOMAIN arrived : recorderRef.events[i].type = arrived[i].type)
    /\ [][(HandlesMessage /\ ~IsNull(recorderRef)
              /\ Head(inbox).type \in CacheEventTypes) =>
            /\ store' = handleEventStore(store, Head(inbox), now)
            /\ IF Head(inbox).type \in TerminalTypes
               THEN /\ IsNull(recorderRef')
                    /\ DataOf(liveEvents') = Append(arrived, Head(inbox))
               ELSE /\ ~IsNull(recorderRef')
                    /\ DataOf(recorderRef'.events) = Append(arrived, Head(inbox))]_vars
    /\ [][(~IsNull(recorderRef) /\ ~IsNull(recorderRef') /\ owner' = owner) =>
            \/ recorderRef'.events = recorderRef.events
            \/ /\ Len(recorderRef'.events) = Len(recorderRef.events) + 1
               /\ SubSeq(recorderRef'.events, 1, Len(recorderRef.events))
                     = recorderRef.events]_vars

\* a recorder has captured session_started and then agent_spawned, both
\* applied to the store, and the third message in flight has been handled too
C17_Witness ==
    /\ op = "handleEvent"
    /\ ~IsNull(recorderRef)
    /\ Len(recorderRef.events) = 2
    /\ recorderRef.events[1].type = "session_started"
    /\ recorderRef.events[2].type = "agent_spawned"
    /\ Len(store.agents) = 2
    /\ inbox = << >>

----------------------------------------------------------------------------
(* Replays against the shared store, under SpecSession *)

\* the replayCache calls that have not resolved yet
ActiveReplays == { k \in DOMAIN replays : ~Settled(replays[k]) }

\* C18: one replay at a time.  Never are two replayCache calls unresolved
\* together, and no startSession call, whether it begins a replay or a live
\* session, is made while an earlier replayCache call is unresolved.
C18_OneReplayAtATime ==
    /\ Cardinality(ActiveReplays) <= 1
    /\ op = "startSession" =>
          IF store.startTime = NoTime
          THEN ActiveReplays = {}                       \* a live session began
          ELSE ActiveReplays \subseteq {Len(replays)}   \* a replay began

----------------------------------------------------------------------------
(* Specification SpecReplayFair: SpecReplay with the scheduling of the       *)
(* event loop: a call that was made runs, and a timer that was set fires     *)

SpecReplayFair == SpecReplay /\ WF_vars(NextReplay)

\* timers of a replay that have been set and have not fired
PendingTimers(rep) == IF rep.pc = "sleep" THEN 1 ELSE 0

\* C19: replay completes.  Every replayCache call is eventually settled; when
\* it has resolved every event has been applied and it has slept once before
\* each event but the first (n - 1 times for n events, never for n <= 1); at
\* no time has it set more timers than it has applied events, so at most one
\* is pending; and once it has resolved or thrown isReplaying is false.
C19_ReplayCompletes ==
    /\ <>(\A k \in DOMAIN replays : Settled(replays[k]))
    /\ [](\A k \in DOMAIN replays :
            LET rep == replays[k]
                n   == Len(rep.events)
            IN  /\ rep.pc = "done" =>
                      /\ Len(rep.applied) = n
                      /\ Len(rep.waits) = IF n <= 1 THEN 0 ELSE n - 1
                /\ Len(rep.waits) <= Len(rep.applied)
                /\ Len(rep.waits) - Max(Len(rep.applied) - 1, 0) = PendingTimers(rep)
                      \/ rep.pc = "thrown"
                /\ Settled(rep) => ~isReplaying
                /\ ~Settled(rep) => isReplaying)

\* a replay of two events has resolved after one sleep, and isReplaying is
\* false again
C19_Witness ==
    \E k \in DOMAIN replays :
        /\ replays[k].pc = "done"
        /\ Len(replays[k].events) = 2
        /\ Len(replays[k].waits) = 1
        /\ replays[k].waits[1].ms = 180
        /\ ~isReplaying

----------------------------------------------------------------------------
(* Specification SpecTools: one agent's tool calls, started and completed    *)
(* by tool_called / tool_result events that the live handler (isReplaying    *)
(* false) or the player (isReplaying true) applies to the store              *)

MaxTools == 2

ToolMessages ==
    { [type |-> "tool_called", agent_id |-> "a1", tool_name |-> "q1"],
      [type |-> "tool_called", agent_id |-> "a1", tool_name |-> "q2"],
      [type |-> "tool_result", agent_id |-> "a1", row_count |-> "5"] }

SpawnA1 == [type |-> "agent_spawned", agent_id |-> "a1", agent_type |-> "data-agent"]

InitTools ==
    /\ now = 0
    /\ localStorage = << >>
    /\ recorderRef = Null
    /\ got = NoCall
    /\ op = "init"
    /\ created = 0
    /\ firstCache = Null
    /\ recorded = << >>
    /\ store = handleEventStore(initialState, SpawnA1, 0)
    /\ replays = << >>
    /\ isReplaying \in BOOLEAN
    /\ cacheEnabled = TRUE
    /\ isConnected = TRUE
    /\ sent = << >>
    /\ inbox = << >>
    /\ started = 0
    /\ lastQuery = << >>
    /\ owner = 0
    /\ liveStore = Null
    /\ liveEvents = << >>
    /\ call = NoStoreCall
    /\ heap = << >>
    /\ arrived = << >>
    /\ tabs = << >>
    /\ overlapped = FALSE

\* the variables the tool events do not touch
ToolsFrame ==
    /\ UNCHANGED <<localStorage, replays, isReplaying, heap, arrived, tabs,
                   overlapped>>
    /\ UNCHANGED recVars
    /\ UNCHANGED sessVars

ToolsTick ==
    /\ now < MaxTime
    /\ now' = now + 1
    /\ op' = "tick"
    /\ UNCHANGED <<store, call>>
    /\ ToolsFrame

\* the tool calls of agent a1
ToolCallsOf(st) == st.agents[FindAgent(st.agents, MsgId("a1"))].toolCalls

\* the event m is applied: by handleEvent when live, by processEvent in a replay
ToolEvent(m) ==
    /\ m.type = "tool_called" => Len(ToolCallsOf(store)) < MaxTools
    /\ store' = IF isReplaying
                THEN processEvent(store, [type |-> m.type, data |-> m,
                                          timestamp |-> 0, delay |-> 0], now)
                ELSE handleEventStore(store, m, now)
    /\ call' = [name |-> m.type, before |-> store]
    /\ op' = "toolEvent"
    /\ UNCHANGED now
    /\ ToolsFrame

NextTools ==
    \/ ToolsTick
    \/ \E m \in ToolMessages : ToolEvent(m)

SpecTools == InitTools /\ [][NextTools]_vars

\* positions of the running tool calls
RunningAt(toolCalls) == { j \in DOMAIN toolCalls : toolCalls[j].status = "running" }

\* the largest element of a non-empty set of numbers
Last(S) == CHOOSE j \in S : \A k \in S : k <= j

\* C20: tool_result completes the latest running tool call.  After a
\* tool_result event for an agent with running tool calls, the running tool
\* call added last is complete and every other tool call of the agent is as
\* it was, in the live handler and in the player alike.
C20_LatestRunningToolCompleted ==
    (call.name = "tool_result" /\ RunningAt(ToolCallsOf(call.before)) # {}) =>
        LET before == ToolCallsOf(call.before)
            after  == ToolCallsOf(store)
            j      == Last(RunningAt(before))
        IN  /\ Len(after) = Len(before)
            /\ after[j].status = "complete"
            /\ \A i \in DOMAIN before : i # j => after[i] = before[i]

----------------------------------------------------------------------------
(* Delay accounting, under SpecRec *)

RECURSIVE SumDelays(_)
\* the sum of the delays of a sequence of events
SumDelays(events) ==
    IF events = << >> THEN 0
    ELSE Head(events).delay + SumDelays(Tail(events))

\* C30: delay accounting.  In every recorder state the delays of the recorded
\* events sum to lastEventTime - startTime and each event's timestamp is
\* startTime plus the delays up to and including its own; the totalDuration
\* of the recording finalizeRecording returns is at least the sum of its
\* events' delays.
C30_DelayAccounting ==
    /\ ~IsNull(recorderRef) =>
          /\ SumDelays(recorderRef.events)
                = recorderRef.lastEventTime - recorderRef.startTime
          /\ \A i \in DOMAIN recorderRef.events :
                recorderRef.events[i].timestamp
                    = recorderRef.startTime
                        + SumDelays(SubSeq(recorderRef.events, 1, i))
    /\ ~IsNull(firstCache) =>
          firstCache.totalDuration >= SumDelays(firstCache.events)

\* a recording of two events, the second recorded later than the first, was
\* finalized
C30_Witness ==
    /\ ~IsNull(firstCache)
    /\ Len(firstCache.events) = 2
    /\ firstCache.events[2].delay > 0
    /\ firstCache.events[2].timestamp > firstCache.events[1].timestamp
    /\ firstCache.totalDuration = SumDelays(firstCache.events)

----------------------------------------------------------------------------
(* Tool calls completed per tool_result, under SpecTools *)

\* C25: each tool_result moves at most one tool call from running to
\* complete: an agent with k running tool calls before the event has at
\* least k - 1 running after it, also when two tool_called events were
\* handled in the same millisecond.
C25_AtMostOneToolCompleted ==
    call.name = "tool_result" =>
        Cardinality(RunningAt(ToolCallsOf(store)))
            >= Cardinality(RunningAt(ToolCallsOf(call.before))) - 1

----------------------------------------------------------------------------
(* Agent statuses, under SpecEquiv *)

\* the statuses the Agent type allows
AgentStatuses == {"pending", "running", "complete", "error"}

\* C26: every agent in the store has a status among pending, running,
\* complete and error; an agent_complete event whose status is not
\* 'completed' never leaves an agent with a status outside that set.
C26_AgentStatusInRange ==
    \A i \in DOMAIN store.agents : store.agents[i].status \in AgentStatuses

----------------------------------------------------------------------------
(* Entries and index, under SpecStore *)

\* the hashes of the entries stored in `ls`
StoredHashes(ls) == { Tail(k) : k \in DOMAIN ls \ {IndexKey} }

\* the hashes the index of `ls` lists (none when it cannot be read)
IndexedHashes(ls) ==
    IF IndexReadable(ls)
    THEN { IndexOf(ls)[i] : i \in DOMAIN IndexOf(ls) }
    ELSE {}

\* C27: store/index consistency.  After any sequence of saveCache and
\* clearAllCache calls, also when a storage write or an index parse fails
\* part-way through a call, every entry present in the storage has its hash
\* in the index.
C27_EntriesIndexed ==
    StoredHashes(localStorage) \subseteq IndexedHashes(localStorage)

----------------------------------------------------------------------------
(* Replay of an empty recording, under SpecReplay *)

\* C29: replaying a recording with no events is a no-op.  When
\* replayCache(cache) with an empty events array has resolved, no wait was
\* made, nothing was thrown and the store is exactly as it was before the
\* call (in SpecReplay: the initial state of the store).
C29_EmptyReplayNoOp ==
    \A k \in DOMAIN replays :
        (replays[k].events = << >> /\ Settled(replays[k])) =>
            /\ replays[k].pc = "done"
            /\ replays[k].waits = << >>
            /\ store = initialState

----------------------------------------------------------------------------
(* What the live path persists, under SpecSession *)

\* the recordings stored in `ls`, parsed
StoredRecordings(ls) == { ParseCache(ls[k]) : k \in DOMAIN ls \ {IndexKey} }

\* C22: every recording the live path has persisted holds at least one event
\* and its last event is session_complete or final_result; so getCache
\* returns it for its prompt, and replaying it from a reset store throws
\* nothing and ends with session status complete.
C22_PersistedEndsTerminal ==
    \A k \in DOMAIN localStorage \ {IndexKey} :
        LET text   == localStorage[k]
            cache  == ParseCache(text)
            events == cache.events
        IN  /\ Len(events) >= 1
            /\ events[Len(events)].type \in TerminalTypes
            /\ ValidText(text)
            /\ getCache(localStorage, cache.prompt) = cache
            /\ \A i \in DOMAIN events : ~EventThrows(events[i])
            /\ ApplyEvents(setStartTime(initialState, now), events, now).sessionStatus
                  = "complete"

\* a live session of several events ending with final_result was persisted,
\* and so was one ending with session_complete
C22_Witness ==
    /\ \E c \in StoredRecordings(localStorage) :
          /\ Len(c.events) >= 2
          /\ c.events[Len(c.events)].type = "final_result"
    /\ \E c \in StoredRecordings(localStorage) :
          c.events[Len(c.events)].type = "session_complete"

\* C24: the controller never holds a finalized recorder.  In every state
\* reached through startSession and handleEvent, recorderRef is absent or
\* refers to a recorder whose isFinalized is false.
C24_NoFinalizedRecorderHeld ==
    IsNull(recorderRef) \/ ~recorderRef.isFinalized

\* handleEvent has just finalized and saved a recorder on a terminal event
C24_Witness ==
    /\ op = "handleEvent"
    /\ ~IsNull(liveStore)
    /\ liveEvents # << >>
    /\ liveEvents[Len(liveEvents)].type \in TerminalTypes
    /\ StoredRecordings(localStorage) # {}
    /\ IsNull(recorderRef)

----------------------------------------------------------------------------
(* Specification SpecBackend: the backend answers the queries it was sent,  *)
(* one after the other in the order they were sent, while the user goes on  *)
(* submitting.  Each inbound message carries a ghost field `reply_to`, the   *)
(* position in `sent` of the query it answers; no code reads it.             *)

MaxReplies == 2

\* the messages of the backend's answer to the query sent as number j
RepliesTo(j) ==
    { [type |-> "session_started", request_id |-> "r1", reply_to |-> j],
      [type |-> "session_complete", duration_ms |-> "7", reply_to |-> j],
      [type |-> "final_result", summary |-> "ok", reply_to |-> j] }

\* session_started comes first, the terminal events after it
ReplyRank(type) ==
    CASE type = "session_started" -> 1
      [] type = "session_complete" -> 2
      [] OTHER -> 3

\* what the backend sends over the whole run: answers in the order of the
\* queries, each answer's messages in their order, none twice
BackendScripts ==
    { script \in SeqsUpTo(UNION { RepliesTo(j) : j \in 1..MaxReplies }, MaxScript) :
        \A a, b \in DOMAIN script :
            a < b =>
               \/ script[a].reply_to < script[b].reply_to
               \/ /\ script[a].reply_to = script[b].reply_to
                  /\ ReplyRank(script[a].type) < ReplyRank(script[b].type) }

InitBackend ==
    /\ now = 0
    /\ localStorage = << >>
    /\ recorderRef = Null
    /\ got = NoCall
    /\ op = "init"
    /\ created = 0
    /\ firstCache = Null
    /\ recorded = << >>
    /\ store = initialState
    /\ replays = << >>
    /\ isReplaying = FALSE
    /\ cacheEnabled = TRUE
    /\ isConnected = TRUE
    /\ sent = << >>
    /\ inbox \in BackendScripts
    /\ started = 0
    /\ lastQuery = << >>
    /\ owner = 0
    /\ liveStore = Null
    /\ liveEvents = << >>
    /\ call = NoStoreCall
    /\ heap = << >>
    /\ arrived = << >>
    /\ tabs = << >>
    /\ overlapped = FALSE

\* the next message of the backend arrives: it answers a query that was sent
Deliver ==
    /\ inbox # << >>
    /\ Head(inbox).reply_to <= Len(sent)
    /\ HandleEvent

NextBackend ==
    \/ \E q \in SessionPrompts : StartSession(q)
    \/ Deliver
    \/ \E k \in DOMAIN replays : ReplayTimer(k)

SpecBackend == InitBackend /\ [][NextBackend]_vars

\* the event answers a query whose prompt hashes to `hash`
AnswersHash(event, hash) ==
    /\ event.data.reply_to \in DOMAIN sent
    /\ hashPrompt(Normalize(sent[event.data.reply_to].query)) = hash

\* C23: no cross-session contamination.  Every event persisted under the hash
\* of a prompt, and every event in the recorder attached for a prompt, was
\* emitted by the backend in reply to a query sent for that prompt: the
\* events of an earlier query are never appended to a later query's recorder.
C23_NoCrossSessionEvents ==
    /\ \A c \in StoredRecordings(localStorage) :
          \A i \in DOMAIN c.events : AnswersHash(c.events[i], c.promptHash)
    /\ ~IsNull(recorderRef) =>
          \A i \in DOMAIN recorderRef.events :
              AnswersHash(recorderRef.events[i], recorderRef.promptHash)

\* the recordings made so far: the stored ones and the one being made
EventsRecorded ==
    { c.events : c \in StoredRecordings(localStorage) }
        \cup (IF IsNull(recorderRef) THEN {} ELSE { recorderRef.events })

\* some recording holds the event of this type that answers query j
RecordedTerminal(type, j) ==
    \E events \in EventsRecorded :
        \E i \in DOMAIN events :
            events[i].type = type /\ events[i].data.reply_to = j

\* C21: finalized and saved at most once per session.  When session_complete
\* and final_result both arrive for one session, only the first of them is
\* recorded: no recording, stored or in the making, holds the other.
C21_OneTerminalEventRecorded ==
    \A j \in 1..MaxReplies :
        ~(RecordedTerminal("session_complete", j) /\ RecordedTerminal("final_result", j))

----------------------------------------------------------------------------
(* Specification SpecRace: saveCache called in several browsing contexts     *)
(* (tabs) of the origin.  Each call is synchronous in its own context, but   *)
(* the contexts run in parallel on the one localStorage, so the storage      *)
(* calls of two saveCache calls interleave: entry write, index read, index   *)
(* write.                                                                    *)

MaxTabs == 2

Tabs == 1..MaxTabs

\* the recordings the contexts save: one for "A ", one for "b"
RaceCaches == { c \in StoreCaches : c.events = <<StoreEvent1>> }

\* a context outside saveCache
IdleTab == [pc |-> "idle", cache |-> Null, index |-> << >>]

\* `localStorage.setItem(key, JSON.stringify(cache))`
saveCacheWriteEntry(ls, cache) ==
    setItem(ls, CacheKey(cache.promptHash), StringifyCache(cache))

\* `indexStr ? JSON.parse(indexStr) : []`
saveCacheReadIndex(ls) == IndexOf(ls)

\* an index update that forgets the index it has read
saveCacheWriteIndexAlone(ls, index, hash) ==
    setItem(ls, IndexKey, StringifyIndex(<<hash>>))

\* `if (!index.includes(hash)) { index.push(hash); localStorage.setItem(...) }`
saveCacheWriteIndex(ls, index, hash) ==
    IF Includes(index, hash) THEN ls
    ELSE setItem(ls, IndexKey, StringifyIndex(Append(index, hash)))

InitRace ==
    /\ now = 0
    /\ localStorage = << >>
    /\ recorderRef = Null
    /\ got = NoCall
    /\ op = "init"
    /\ created = 0
    /\ firstCache = Null
    /\ recorded = << >>
    /\ store = initialState
    /\ replays = << >>
    /\ isReplaying = FALSE
    /\ cacheEnabled = TRUE
    /\ isConnected = TRUE
    /\ sent = << >>
    /\ inbox = << >>
    /\ started = 0
    /\ lastQuery = << >>
    /\ owner = 0
    /\ liveStore = Null
    /\ liveEvents = << >>
    /\ call = NoStoreCall
    /\ heap = << >>
    /\ arrived = << >>
    /\ tabs = [t \in Tabs |-> IdleTab]
    /\ overlapped = FALSE

\* the variables saveCache does not touch
RaceFrame ==
    /\ UNCHANGED now
    /\ UNCHANGED recVars
    /\ UNCHANGED appVars
    /\ UNCHANGED sessVars
    /\ UNCHANGED <<call, heap, arrived>>

\* context t enters saveCache(cache) and writes the entry
SaveWriteEntry(t, cache) ==
    /\ tabs[t].pc = "idle"
    /\ localStorage' = saveCacheWriteEntry(localStorage, cache)
    /\ tabs' = [tabs EXCEPT ![t] = [pc |-> "wrote", cache |-> cache, index |-> << >>]]
    /\ overlapped' = (overlapped \/ \E u \in Tabs \ {t} : tabs[u].pc # "idle")
    /\ op' = "saveCache"
    /\ RaceFrame

\* context t reads and parses the index
SaveReadIndex(t) ==
    /\ tabs[t].pc = "wrote"
    /\ tabs' = [tabs EXCEPT ![t].pc = "read",
                            ![t].index = saveCacheReadIndex(localStorage)]
    /\ op' = "readIndex"
    /\ UNCHANGED <<localStorage, overlapped>>
    /\ RaceFrame

\* context t writes the index back if the hash was not in it, and returns
SaveWriteIndex(t) ==
    /\ tabs[t].pc = "read"
    /\ localStorage' = saveCacheWriteIndex(localStorage, tabs[t].index,
                                           tabs[t].cache.promptHash)
    /\ tabs' = [tabs EXCEPT ![t] = IdleTab]
    /\ op' = "writeIndex"
    /\ UNCHANGED overlapped
    /\ RaceFrame

NextRace ==
    \/ \E t \in Tabs, cache \in RaceCaches : SaveWriteEntry(t, cache)
    \/ \E t \in Tabs : SaveReadIndex(t)
    \/ \E t \in Tabs : SaveWriteIndex(t)

SpecRace == InitRace /\ [][NextRace]_vars

\* the hashes whose saveCache call is under way
BeingSaved == { tabs[t].cache.promptHash : t \in { u \in Tabs : tabs[u].pc # "idle" } }

\* C28: the index update of saveCache is a read-modify-write that is not
\* atomic.  As long as the saveCache calls of the contexts have run one at a
\* time, every stored entry has its hash in the index once its call has
\* returned; when two contexts save different hashes with their index read
\* and write interleaved, both entries end up stored with only one of the
\* hashes in the index (the state C28_Witness, which is reached).
C28_SequentialSavesIndexed ==
    ~overlapped =>
        StoredHashes(localStorage) \subseteq
            (IndexedHashes(localStorage) \cup BeingSaved)

\* both calls have returned, both entries are stored, one hash is indexed
C28_Witness ==
    /\ overlapped
    /\ \A t \in Tabs : tabs[t].pc = "idle"
    /\ Cardinality(StoredHashes(localStorage)) = 2
    /\ Cardinality(IndexedHashes(localStorage)) = 1

====
